---- MODULE Spec2Model ----
(***************************************************************************)
(* MacroRecorder: the event codec (to_mcr_line, from_mcr_line), the two    *)
(* key-name tables, the player session (MacroPlayer) with the scheduling   *)
(* loops (play_events threads) it spawns, the hook adapter (GlobalHooks,   *)
(* the hook procedures), the recorder session and the application          *)
(* (MacroApp) that drives them.                                            *)
(*                                                                         *)
(* Specifications.                                                         *)
(*  - Spec: the player, its loops and the clock.                           *)
(*  - SpecSession: the player and its loops at one instant, every factor.  *)
(*  - SpecLoad: load_from_file on every file of MaxLines lines.            *)
(*  - SpecCodec: an event through to_mcr_line then from_mcr_line, and a    *)
(*    text through from_mcr_line.                                          *)
(*  - SpecKeys: a key code through vk_code_to_string then                  *)
(*    key_name_to_vk_code.                                                 *)
(*  - SpecHooks: install, uninstall and the two hook procedures.           *)
(*  - SpecRecording: start_recording, pause_resume_recording and           *)
(*    stop_current_action with the hook procedures, the recorder and the   *)
(*    clock.                                                               *)
(*  - SpecPlayback: save_recording, load_recording, start_playback,        *)
(*    pause_resume_recording and stop_current_action with the player and   *)
(*    its loops at one instant.                                            *)
(*  - SpecOverlap: a playback followed by start_recording.                 *)
(*  - SpecLocks: the operations of the application lock by lock, with the  *)
(*    keyboard hook procedure and its callback.                            *)
(*                                                                         *)
(* Representation.                                                         *)
(*  - Time is a monotonic clock counted in whole seconds (now).            *)
(*  - An f64 is a record [cls, v, sub]: cls is "fin" (v seconds and sub    *)
(*    tenths of a microsecond), "nan", "inf" or "ninf".                    *)
(*  - The playback speed (f32) is counted in tenths: 10 is 1.0x.  The      *)
(*    quotient timestamp / speed is never rounded: the comparisons the     *)
(*    code makes on it are made by cross-multiplication.                   *)
(*  - A text line read from a file is the sequence of its ';'-separated    *)
(*    fields; a field is [k, eq, v]: the text k when eq is FALSE, the text *)
(*    k=v when eq is TRUE.  Parsing a field is a lookup in the table of    *)
(*    the texts used.                                                      *)
(*  - A text the encoder writes is the sequence of its tokens: ";" and "=" *)
(*    are tokens of their own, so that join and split work on the          *)
(*    separators the text holds, whoever put them there.                   *)
(*  - The callback Box is "live" or "freed"; a call or a drop through a    *)
(*    freed Box lets the process go on or die (os_hooks.crashed).          *)
(*  - A hook procedure takes two steps: it takes the lock of             *)
(*    GLOBAL_HOOKS and calls the callback with the event it has built;     *)
(*    then the callback runs (recorder.add_event) and the procedure        *)
(*    returns.  The application acts between the two.                      *)
(*  - The recorder (recorder.rs) is modelled from its specification: a     *)
(*    state and a timeline.                                                *)
(*  - Option<T>: <<>> is None, <<x>> is Some(x).                           *)
(***************************************************************************)
EXTENDS Integers, Sequences, FiniteSets, TLC

\* ------------------------------------------------------------------ bounds

\* The clock stops at MaxTime.
MaxTime == 2

\* At most MaxLoops play_events threads are spawned in one run.
MaxLoops == 2

\* A file of the decoder's specification holds at most MaxLines lines.
MaxLines == 3

\* install() is called at most MaxInstalls times in one run.
MaxInstalls == 2

\* The events a recording session takes into its timeline.
MaxRecorded == 2

\* ------------------------------------------------------------ f64 and Option

None == <<>>

Some(x) == <<x>>

\* The tenths of a microsecond in one second.
SubPerSec == 10000000

\* The finite f64 of v seconds and sub tenths of a microsecond.
FinSub(n, s) == [cls |-> "fin", v |-> n, sub |-> s]

Fin(n) == FinSub(n, 0)

NaN == [cls |-> "nan", v |-> 0, sub |-> 0]

PosInf == [cls |-> "inf", v |-> 0, sub |-> 0]

NegInf == [cls |-> "ninf", v |-> 0, sub |-> 0]

\* f64::partial_cmp: "None" as soon as one side is NaN.
PartialCmp(a, b) ==
    IF a.cls = "nan" \/ b.cls = "nan" THEN "None"
    ELSE LET rank(x) == CASE x.cls = "ninf" -> 0 [] x.cls = "fin" -> 1 [] OTHER -> 2
         IN  IF rank(a) < rank(b) THEN "Less"
             ELSE IF rank(a) > rank(b) THEN "Greater"
             ELSE IF a.cls # "fin" THEN "Equal"
             ELSE IF a.v < b.v THEN "Less"
             ELSE IF a.v > b.v THEN "Greater"
             ELSE IF a.sub < b.sub THEN "Less"
             ELSE IF a.sub > b.sub THEN "Greater"
             ELSE "Equal"

\* ------------------------------------------------------------------- texts

Plain(t) == [k |-> t, eq |-> FALSE, v |-> ""]

KV(key, value) == [k |-> key, eq |-> TRUE, v |-> value]

\* str::parse::<f64> on the texts of the model.
ParseF64(field) ==
    IF field.eq THEN None
    ELSE CASE field.k = "0.000000" -> Some(Fin(0))
           [] field.k = "1.000000" -> Some(Fin(1))
           [] field.k = "2.000000" -> Some(Fin(2))
           [] field.k = "0.000001" -> Some(FinSub(0, 10))
           [] field.k = "1.234567" -> Some(FinSub(1, 2345670))
           [] field.k = "1.234568" -> Some(FinSub(1, 2345680))
           [] field.k = "-1.000000" -> Some(Fin(-1))
           [] field.k = "NaN" -> Some(NaN)
           [] field.k = "inf" -> Some(PosInf)
           [] field.k = "-inf" -> Some(NegInf)
           [] OTHER -> None

\* str::parse::<i64> on the texts of the model.
ParseI64(text) ==
    CASE text = "0" -> Some(0)
      [] text = "1" -> Some(1)
      [] text = "-1" -> Some(-1)
      [] text = "100" -> Some(100)
      [] text = "200" -> Some(200)
      [] OTHER -> None

\* str::trim then is_empty, for a whole line.
IsBlankLine(line) ==
    Len(line) = 1 /\ ~line[1].eq /\ line[1].k \in {"", " "}

\* str::trim then starts_with('#'), for a whole line.
IsCommentLine(line) ==
    Len(line) >= 1 /\ line[1].k \in {"#", "# macro"}

\* ------------------------------------------------------------------- events

\* An EventType::from_str that does not look at the case of the letters.
EventTypeFromStrAnyCase(s) ==
    CASE s \in {"KDOWN", "kdown"} -> Some("KeyDown")
      [] s \in {"KUP", "kup"} -> Some("KeyUp")
      [] s \in {"MMOVE", "mmove"} -> Some("MouseMove")
      [] s \in {"MDOWN", "mdown"} -> Some("MouseDown")
      [] s \in {"MUP", "mup"} -> Some("MouseUp")
      [] s \in {"MSCROLL", "mscroll"} -> Some("MouseScroll")
      [] OTHER -> None

EventTypeFromStr(s) ==
    CASE s = "KDOWN" -> Some("KeyDown")
      [] s = "KUP" -> Some("KeyUp")
      [] s = "MMOVE" -> Some("MouseMove")
      [] s = "MDOWN" -> Some("MouseDown")
      [] s = "MUP" -> Some("MouseUp")
      [] s = "MSCROLL" -> Some("MouseScroll")
      [] OTHER -> None

\* serde_json::Value, the two shapes the codec builds.
JStr(s) == [t |-> "str", s |-> s, n |-> 0]

JNum(n) == [t |-> "num", s |-> "", n |-> n]

EmptyMap == [x \in {} |-> JNum(0)]

MapInsert(m, key, value) ==
    [x \in (DOMAIN m) \cup {key} |-> IF x = key THEN value ELSE m[x]]

\* One round of from_mcr_line's loop over the fields after the second.
ParsePart(data, part) ==
    IF ~part.eq THEN data
    ELSE CASE part.k = "char" -> MapInsert(data, "key_name", JStr(part.v))
           [] part.k \in {"x", "y", "dx", "dy"} ->
                IF ParseI64(part.v) # None
                THEN MapInsert(data, part.k, JNum(ParseI64(part.v)[1]))
                ELSE data
           [] part.k = "button" ->
                MapInsert(data, "button",
                    JNum(CASE part.v = "left" -> 1
                           [] part.v = "right" -> 2
                           [] part.v = "middle" -> 3
                           [] OTHER -> 0))
           [] OTHER -> MapInsert(data, part.k, JStr(part.v))

RECURSIVE ParseParts(_, _, _)
ParseParts(parts, i, data) ==
    IF i > Len(parts) THEN data
    ELSE ParseParts(parts, i + 1, ParsePart(data, parts[i]))

\* MacroEvent::from_mcr_line.
FromMcrLine(line) ==
    IF IsBlankLine(line) \/ IsCommentLine(line) THEN None
    ELSE IF Len(line) < 2 THEN None
    ELSE IF ParseF64(line[1]) = None THEN None
    ELSE IF line[2].eq \/ EventTypeFromStr(line[2].k) = None THEN None
    ELSE Some([timestamp |-> ParseF64(line[1])[1],
               event_type |-> EventTypeFromStr(line[2].k)[1],
               data |-> ParseParts(line, 3, EmptyMap)])

\* The virtual-key codes of the platform that the source names.
VK ==
    [SPACE |-> 32, RETURN |-> 13, BACK |-> 8, TAB |-> 9, SHIFT |-> 16,
     CONTROL |-> 17, MENU |-> 18, ESCAPE |-> 27, LEFT |-> 37, UP |-> 38,
     RIGHT |-> 39, DOWN |-> 40, DELETE |-> 46, INSERT |-> 45, HOME |-> 36,
     END |-> 35, PRIOR |-> 33, NEXT |-> 34]

\* ASCII: the capital letters from 65, the small letters from 97, the digits
\* from 48.
UpperCase ==
    <<"A", "B", "C", "D", "E", "F", "G", "H", "I", "J", "K", "L", "M",
      "N", "O", "P", "Q", "R", "S", "T", "U", "V", "W", "X", "Y", "Z">>

LowerCase ==
    <<"a", "b", "c", "d", "e", "f", "g", "h", "i", "j", "k", "l", "m",
      "n", "o", "p", "q", "r", "s", "t", "u", "v", "w", "x", "y", "z">>

\* char::from(code as u8).to_string(), for a letter or a digit.
CharFrom(code) ==
    IF code \in 65..90 THEN UpperCase[code - 64]
    ELSE IF code \in 97..122 THEN LowerCase[code - 96]
    ELSE ToString(code - 48)

\* str::to_lowercase and str::to_uppercase of one character.
ToLowercase(ch) ==
    IF \E i \in 1..26 : UpperCase[i] = ch
    THEN LowerCase[CHOOSE i \in 1..26 : UpperCase[i] = ch]
    ELSE ch

ToUppercase(ch) ==
    IF \E i \in 1..26 : LowerCase[i] = ch
    THEN UpperCase[CHOOSE i \in 1..26 : LowerCase[i] = ch]
    ELSE ch

IsAsciiLowercase(ch) == \E i \in 1..26 : LowerCase[i] = ch

IsAsciiDigit(ch) == \E d \in 0..9 : ToString(d) = ch

\* The code of one character, a letter or a digit: ch as u16.
CharCode(ch) ==
    IF \E i \in 1..26 : UpperCase[i] = ch THEN 64 + (CHOOSE i \in 1..26 : UpperCase[i] = ch)
    ELSE IF IsAsciiLowercase(ch) THEN 96 + (CHOOSE i \in 1..26 : LowerCase[i] = ch)
    ELSE 48 + (CHOOSE d \in 0..9 : ToString(d) = ch)

\* The one-character string of U+0060, which a string of the model cannot
\* hold: it stands as a token of its own.
Grave == "U+0060"

\* The hook procedures are handed the key codes 1..MaxVkCode.
MaxVkCode == 255

\* str::parse::<u16> of the text after a prefix: the number whose decimal
\* text it is, among the numbers the key codes of the model are written with.
ParseU16After(prefix, text) ==
    IF \E n \in 0..MaxVkCode : text = prefix \o ToString(n)
    THEN Some(CHOOSE n \in 0..MaxVkCode : text = prefix \o ToString(n))
    ELSE None

\* key.starts_with('f') && key.len() <= 3, key being no single letter.
IsShortF(key) ==
    \/ \E i \in 1..26 : key = "f" \o LowerCase[i]
    \/ \E n \in 0..99 : key = "f" \o ToString(n)

\* hooks.rs vk_code_to_string
VkCodeToString(vk_code) ==
    CASE vk_code \in 65..90 -> ToLowercase(CharFrom(vk_code))
      [] vk_code \in 48..57 -> CharFrom(vk_code)
      [] vk_code \in 112..123 -> "f" \o ToString(vk_code - 111)
      [] vk_code = VK.SPACE -> "space"
      [] vk_code = VK.RETURN -> "enter"
      [] vk_code = VK.BACK -> "backspace"
      [] vk_code = VK.TAB -> "tab"
      [] vk_code = VK.SHIFT -> "shift"
      [] vk_code = VK.CONTROL -> "ctrl"
      [] vk_code = VK.MENU -> "alt"
      [] vk_code = VK.ESCAPE -> "esc"
      [] vk_code = VK.LEFT -> "left"
      [] vk_code = VK.UP -> "up"
      [] vk_code = VK.RIGHT -> "right"
      [] vk_code = VK.DOWN -> "down"
      [] vk_code = VK.DELETE -> "delete"
      [] vk_code = VK.INSERT -> "insert"
      [] vk_code = VK.HOME -> "home"
      [] vk_code = VK.END -> "end"
      [] vk_code = VK.PRIOR -> "page_up"
      [] vk_code = VK.NEXT -> "page_down"
      [] vk_code = 186 -> ";"
      [] vk_code = 187 -> "="
      [] vk_code = 188 -> ","
      [] vk_code = 189 -> "-"
      [] vk_code = 190 -> "."
      [] vk_code = 191 -> "/"
      [] vk_code = 192 -> Grave
      [] vk_code = 219 -> "["
      [] vk_code = 220 -> "\\"
      [] vk_code = 221 -> "]"
      [] vk_code = 222 -> "'"
      [] OTHER -> "vk_" \o ToString(vk_code)

\* Function keys counted from 0: f1 is 0x71.
FunctionKeyCodeFrom0(num) == 112 + num

\* Some(0x70 + num - 1): F1 is 0x70.
FunctionKeyCode(num) == 112 + num - 1

\* MacroPlayer::key_name_to_vk_code: the arms in the order of the match.
KeyNameToVkCode(key_name) ==
    IF IsAsciiLowercase(key_name) THEN Some(CharCode(ToUppercase(key_name)))
    ELSE IF IsAsciiDigit(key_name) THEN Some(CharCode(key_name))
    ELSE IF IsShortF(key_name)
         THEN IF ParseU16After("f", key_name) # None
                 /\ ParseU16After("f", key_name)[1] \in 1..12
              THEN Some(FunctionKeyCode(ParseU16After("f", key_name)[1]))
              ELSE None
    ELSE CASE key_name = "space" -> Some(VK.SPACE)
           [] key_name = "enter" -> Some(VK.RETURN)
           [] key_name = "backspace" -> Some(VK.BACK)
           [] key_name = "tab" -> Some(VK.TAB)
           [] key_name = "shift" -> Some(VK.SHIFT)
           [] key_name = "ctrl" -> Some(VK.CONTROL)
           [] key_name = "alt" -> Some(VK.MENU)
           [] key_name = "esc" -> Some(VK.ESCAPE)
           [] key_name = "left" -> Some(VK.LEFT)
           [] key_name = "up" -> Some(VK.UP)
           [] key_name = "right" -> Some(VK.RIGHT)
           [] key_name = "down" -> Some(VK.DOWN)
           [] key_name = "delete" -> Some(VK.DELETE)
           [] key_name = "insert" -> Some(VK.INSERT)
           [] key_name = "home" -> Some(VK.HOME)
           [] key_name = "end" -> Some(VK.END)
           [] key_name = "page_up" -> Some(VK.PRIOR)
           [] key_name = "page_down" -> Some(VK.NEXT)
           [] key_name = ";" -> Some(186)
           [] key_name = "=" -> Some(187)
           [] key_name = "," -> Some(188)
           [] key_name = "-" -> Some(189)
           [] key_name = "." -> Some(190)
           [] key_name = "/" -> Some(191)
           [] key_name = Grave -> Some(192)
           [] key_name = "[" -> Some(219)
           [] key_name = "\\" -> Some(220)
           [] key_name = "]" -> Some(221)
           [] key_name = "'" -> Some(222)
           [] OTHER -> ParseU16After("vk_", key_name)

\* A call of the OS injection facility (SetCursorPos, SendInput).
OsCall(call, a, b, down) == [call |-> call, a |-> a, b |-> b, down |-> down]

HasI64(data, key) == key \in DOMAIN data /\ data[key].t = "num"

HasU64(data, key) == HasI64(data, key) /\ data[key].n >= 0

\* MacroPlayer::send_mouse_click: the cursor is moved first, the button event
\* is sent for the buttons 1, 2 and 3 only.
SendMouseClick(x, y, button, is_down) ==
    <<OsCall("SetCursorPos", x, y, FALSE)>> \o
    (IF button \in {1, 2, 3}
     THEN <<OsCall("SendInput.button", button, 0, is_down)>>
     ELSE <<>>)

\* MacroPlayer::execute_event: the OS calls made for one event.
ExecuteEvent(event) ==
    LET d == event.data
        ty == event.event_type
    IN  CASE ty \in {"KeyDown", "KeyUp"} ->
               IF "key_name" \in DOMAIN d /\ d["key_name"].t = "str"
                  /\ KeyNameToVkCode(d["key_name"].s) # None
               THEN <<OsCall("SendInput.key", KeyNameToVkCode(d["key_name"].s)[1], 0,
                             ty = "KeyDown")>>
               ELSE <<>>
          [] ty = "MouseMove" ->
               IF HasI64(d, "x") /\ HasI64(d, "y")
               THEN <<OsCall("SetCursorPos", d["x"].n, d["y"].n, FALSE)>>
               ELSE <<>>
          [] ty \in {"MouseDown", "MouseUp"} ->
               IF HasI64(d, "x") /\ HasI64(d, "y") /\ HasU64(d, "button")
               THEN SendMouseClick(d["x"].n, d["y"].n, d["button"].n, ty = "MouseDown")
               ELSE <<>>
          [] OTHER ->
               IF HasI64(d, "x") /\ HasI64(d, "y") /\ HasI64(d, "delta")
               THEN <<OsCall("SetCursorPos", d["x"].n, d["y"].n, FALSE),
                      OsCall("SendInput.wheel", d["delta"].n * 120, 0, FALSE)>>
               ELSE <<>>

\* ---------------------------------------------------------------- the codec

\* A text is the sequence of its tokens: the separators ";" and "=" are
\* tokens of their own, no other token holds one of them.
Chars(s) == IF s = "" THEN <<>> ELSE <<s>>

\* The text of a sequence of tokens.
RECURSIVE Text(_)
Text(tokens) == IF tokens = <<>> THEN "" ELSE Head(tokens) \o Text(Tail(tokens))

\* Fractional digits without the zeros in front.
Pad6NoZeros(n) == ToString(n)

\* The six fractional digits of format!("{:.6}", ..): n microseconds.
Pad6(n) ==
    (IF n < 10 THEN "00000"
     ELSE IF n < 100 THEN "0000"
     ELSE IF n < 1000 THEN "000"
     ELSE IF n < 10000 THEN "00"
     ELSE IF n < 100000 THEN "0"
     ELSE "") \o ToString(n)

\* format!("{:.6}", timestamp): the value is rounded to the microsecond.
FormatF64(x) ==
    CASE x.cls = "nan" -> "NaN"
      [] x.cls = "inf" -> "inf"
      [] x.cls = "ninf" -> "-inf"
      [] OTHER ->
           LET tenths == x.v * SubPerSec + x.sub
               abs == IF tenths < 0 THEN 0 - tenths ELSE tenths
               micros == (abs + 5) \div 10
           IN  (IF tenths < 0 THEN "-" ELSE "")
               \o ToString(micros \div 1000000) \o "." \o Pad6(micros % 1000000)

\* format!("{}", n) of an integer.
FormatI64(n) == ToString(n)

\* EventType's Display.
EventTypeToString(ty) ==
    CASE ty = "KeyDown" -> "KDOWN"
      [] ty = "KeyUp" -> "KUP"
      [] ty = "MouseMove" -> "MMOVE"
      [] ty = "MouseDown" -> "MDOWN"
      [] ty = "MouseUp" -> "MUP"
      [] OTHER -> "MSCROLL"

\* format!("{}={}", key, value)
FormatKV(key, value) == <<key, "=">> \o Chars(value)

\* parts.join(";")
RECURSIVE Join(_)
Join(parts) ==
    IF parts = <<>> THEN <<>>
    ELSE IF Len(parts) = 1 THEN parts[1]
    ELSE parts[1] \o <<";">> \o Join(Tail(parts))

\* A button name that knows no middle button.
ButtonNameNoMiddle(btn_val) ==
    CASE btn_val = 1 -> "left"
      [] btn_val = 2 -> "right"
      [] OTHER -> "unknown"

\* let button_name = match btn_val { .. }
ButtonName(btn_val) ==
    CASE btn_val = 1 -> "left"
      [] btn_val = 2 -> "right"
      [] btn_val = 3 -> "middle"
      [] OTHER -> "unknown"

\* A dy that is the sign of the delta: 0 for no delta.
ScrollDySign(delta_val) == IF delta_val > 0 THEN 1 ELSE IF delta_val < 0 THEN -1 ELSE 0

\* let dy = if delta_val > 0 { 1 } else { -1 }
ScrollDy(delta_val) == IF delta_val > 0 THEN 1 ELSE -1

\* The fields to_mcr_line pushes after the first two.
DataParts(event) ==
    LET d == event.data
        ty == event.event_type
    IN  CASE ty \in {"KeyDown", "KeyUp"} ->
               IF "key_name" \in DOMAIN d /\ d["key_name"].t = "str"
               THEN <<FormatKV("char", d["key_name"].s)>>
               ELSE <<>>
          [] ty = "MouseMove" ->
               IF HasI64(d, "x") /\ HasI64(d, "y")
               THEN <<FormatKV("x", FormatI64(d["x"].n)), FormatKV("y", FormatI64(d["y"].n))>>
               ELSE <<>>
          [] ty \in {"MouseDown", "MouseUp"} ->
               IF HasI64(d, "x") /\ HasI64(d, "y") /\ HasU64(d, "button")
               THEN <<FormatKV("button", ButtonName(d["button"].n)),
                      FormatKV("x", FormatI64(d["x"].n)),
                      FormatKV("y", FormatI64(d["y"].n))>>
               ELSE <<>>
          [] OTHER ->
               IF HasI64(d, "x") /\ HasI64(d, "y") /\ HasI64(d, "delta")
               THEN <<FormatKV("dx", "0"),
                      FormatKV("dy", FormatI64(ScrollDy(d["delta"].n))),
                      FormatKV("x", FormatI64(d["x"].n)),
                      FormatKV("y", FormatI64(d["y"].n))>>
               ELSE <<>>

\* MacroEvent::to_mcr_line
ToMcrLine(event) ==
    Join(<<Chars(FormatF64(event.timestamp)), <<EventTypeToString(event.event_type)>>>>
         \o DataParts(event))

\* str::split(sep): the pieces between the separators, empty ones included.
RECURSIVE Split(_, _)
Split(text, sep) ==
    IF \A i \in 1..Len(text) : text[i] # sep THEN <<text>>
    ELSE LET at == CHOOSE i \in 1..Len(text) :
                       text[i] = sep /\ \A j \in 1..(i - 1) : text[j] # sep
         IN  <<SubSeq(text, 1, at - 1)>> \o Split(SubSeq(text, at + 1, Len(text)), sep)

\* str::split_once('='), then the field as from_mcr_line reads it.
FieldOf(piece) ==
    LET halves == Split(piece, "=")
    IN  IF Len(halves) = 1 THEN Plain(Text(piece))
        ELSE KV(Text(halves[1]), Text(SubSeq(piece, Len(halves[1]) + 2, Len(piece))))

\* line.split(';').collect()
SplitLine(text) ==
    LET pieces == Split(text, ";")
    IN  [i \in 1..Len(pieces) |-> FieldOf(pieces[i])]

\* The text of a line given by its fields.
RawText(line) ==
    Join([i \in 1..Len(line) |->
            IF line[i].eq THEN FormatKV(line[i].k, line[i].v) ELSE Chars(line[i].k)])

\* ------------------------------------------------------------------- files

LineKeyDown0 == <<Plain("0.000000"), Plain("KDOWN"), KV("char", "a")>>

LineKeyUp1 == <<Plain("1.000000"), Plain("KUP"), KV("char", "a")>>

LineMove2 == <<Plain("2.000000"), Plain("MMOVE"), KV("x", "100"), KV("y", "200")>>

LineDown1 ==
    <<Plain("1.000000"), Plain("MDOWN"), KV("button", "right"), KV("x", "100"), KV("y", "200")>>

LineNegative == <<Plain("-1.000000"), Plain("KDOWN"), KV("char", "a")>>

LineNaN == <<Plain("NaN"), Plain("KUP"), KV("char", "a")>>

LineInf == <<Plain("inf"), Plain("KUP"), KV("char", "a")>>

LineComment == <<Plain("# macro")>>

LineBlank == <<Plain("")>>

LineBadTime == <<Plain("abc"), Plain("KDOWN"), KV("char", "a")>>

LineBadCode == <<Plain("1.000000"), Plain("WHEEL"), KV("x", "100")>>

LineShort == <<Plain("1.000000")>>

\* The lines a file of the decoder's specification is made of.
LineVocab ==
    {LineKeyDown0, LineKeyUp1, LineMove2, LineDown1, LineNegative, LineNaN, LineInf,
     LineComment, LineBlank, LineBadTime, LineBadCode, LineShort}

\* The files on disk in the player's specification: one of two events written
\* out of order, one whose first timestamp is negative, one without any
\* event, one that holds a NaN timestamp; <<>> is a path that cannot be read.
PlayerFiles ==
    {Some(<<LineKeyUp1, LineComment, LineKeyDown0>>),
     Some(<<LineNegative, LineKeyDown0>>),
     Some(<<LineComment, LineBlank>>),
     Some(<<LineNaN, LineKeyDown0>>),
     None}

SeqsUpTo(S, n) == UNION {[1..k -> S] : k \in 0..n}

\* Every file of at most MaxLines lines, and the unreadable path.
AllFiles == {Some(c) : c \in SeqsUpTo(LineVocab, MaxLines)} \cup {None}

\* --------------------------------------------------------------- the player

\* set_speed clamps to [0.1, 10.0]; a new player plays at 1.0.
MinSpeed == 1

MaxSpeed == 100

DefaultSpeed == 10

\* The factor handed to set_speed while the clock runs, in tenths: 2.0.
Factors == {Fin(20)}

\* The factors handed to set_speed in the session's specification: NaN, the
\* infinities, -0.2, 0.0, the two ends of the range, 5.0, 10.1, 25.0.
AllFactors ==
    {NaN, PosInf, NegInf} \cup {Fin(n) : n \in {-2, 0, 1, 50, 100, 101, 250}}

\* f32::max and f32::min: the other operand when one is NaN.
F32Max(a, b) ==
    IF a.cls = "nan" THEN b ELSE IF b.cls = "nan" THEN a
    ELSE IF PartialCmp(a, b) = "Less" THEN b ELSE a

F32Min(a, b) ==
    IF a.cls = "nan" THEN b ELSE IF b.cls = "nan" THEN a
    ELSE IF PartialCmp(a, b) = "Greater" THEN b ELSE a

\* The clamp without its upper end.
ClampSpeedNoUpper(speed) == F32Max(speed, Fin(MinSpeed))

\* speed.max(0.1).min(10.0)
ClampSpeed(speed) == F32Min(F32Max(speed, Fin(MinSpeed)), Fin(MaxSpeed))

\* An insertion that moves e before the elements equal to it as well.
RECURSIVE InsertSortedUnstable(_, _)
InsertSortedUnstable(s, e) ==
    IF s = <<>> THEN <<e>>
    ELSE IF PartialCmp(e.timestamp, s[Len(s)].timestamp) \in {"Less", "Equal"}
         THEN Append(InsertSortedUnstable(SubSeq(s, 1, Len(s) - 1), e), s[Len(s)])
         ELSE Append(s, e)

\* A comparison of Vec::sort_by's insertion: e moves before the elements
\* greater than it, and stays behind the elements equal to it.
RECURSIVE InsertSorted(_, _)
InsertSorted(s, e) ==
    IF s = <<>> THEN <<e>>
    ELSE IF PartialCmp(e.timestamp, s[Len(s)].timestamp) = "Less"
         THEN Append(InsertSorted(SubSeq(s, 1, Len(s) - 1), e), s[Len(s)])
         ELSE Append(s, e)

\* events.sort_by(|a, b| a.timestamp.partial_cmp(&b.timestamp).unwrap())
RECURSIVE SortByTimestamp(_)
SortByTimestamp(s) ==
    IF s = <<>> THEN <<>>
    ELSE InsertSorted(SortByTimestamp(SubSeq(s, 1, Len(s) - 1)), s[Len(s)])

\* The unwrap of the comparison panics on a NaN timestamp; a sort of fewer
\* than two events compares nothing.
SortPanics(s) ==
    Len(s) >= 2 /\ \E i \in 1..Len(s) : s[i].timestamp.cls = "nan"

\* The loop of load_from_file over content.lines().
RECURSIVE DecodeLines(_)
DecodeLines(content) ==
    IF content = <<>> THEN <<>>
    ELSE FromMcrLine(Head(content)) \o DecodeLines(Tail(content))

VARIABLES
    player,      \* the MacroPlayer session
    loops,       \* the play_events threads spawned so far
    injected,    \* the OS calls made so far
    now,         \* the monotonic clock
    file,        \* the file at the path the application loads
    last_load,   \* what the last load_from_file returned
    panicked,    \* the controlling context has panicked
    codec,       \* an event on its way through to_mcr_line and from_mcr_line
    keys,        \* a key code on its way through the two key-name tables
    hooks,       \* the GlobalHooks value the application owns
    GLOBAL_HOOKS,    \* the process-wide handle the hook procedures read
    os_hooks,    \* the hook procedures registered with the OS
    callback_calls,  \* the events the running hook procedure has handed to the callback
    app,         \* the MacroApp: its state and the file it has named
    recorder     \* the MacroRecorder session

vars == <<player, loops, injected, now, file, last_load, panicked,
          codec, keys, hooks, GLOBAL_HOOKS, os_hooks, callback_calls, app, recorder>>

\* The variables the player and its loops never touch.
aux == <<codec, keys, hooks, GLOBAL_HOOKS, os_hooks, callback_calls, app, recorder>>

appVars == <<app, recorder>>

\* Nothing is on its way through the codec.
NoCodec == [step |-> "idle", event |-> <<>>, line |-> <<>>, decoded |-> <<>>]

\* Nothing is on its way through the key-name tables.
NoKeys == [step |-> "idle", code |-> 0, name |-> "", back |-> <<>>]

\* GlobalHooks::new, then the set_callback of MacroApp::new.  The callback
\* is a Box: "live", or "freed" once a holder of a copy of the pointer has
\* dropped it.
NewHooks ==
    [keyboard_hook |-> <<>>, mouse_hook |-> <<>>, callback |-> "live", start_time |-> 0]

\* No hook procedure is registered, none is running, install() has not been
\* called, the process has not crashed; last is what the last call of
\* install() or uninstall() was and returned.
NoOsHooks ==
    [installs |-> 0, registered |-> {}, call |-> <<>>, crashed |-> FALSE, last |-> "none"]

\* The application has been constructed, no hook has been installed.
HooksInit ==
    /\ hooks = NewHooks
    /\ GLOBAL_HOOKS = <<>>
    /\ os_hooks = NoOsHooks
    /\ callback_calls = <<>>

\* MacroApp::new: the application is Idle, has named no file and plays at
\* 1.0.  pc is what is left of the operation the controlling context is in
\* (empty between operations), held the locks it holds.
NewApp == [state |-> "Idle", current_file |-> <<>>, playback_speed |-> 10,
           pc |-> <<>>, held |-> {}]

\* MacroRecorder::new: Idle, with an empty timeline.
NewRecorder == [state |-> "Idle", events |-> <<>>]

\* MacroRecorder::clear: empties the timeline.
RecorderClear(r) == [r EXCEPT !.events = <<>>]

\* MacroRecorder::start: Idle to Recording, nothing if not Idle.
RecorderStart(r) == IF r.state = "Idle" THEN [r EXCEPT !.state = "Recording"] ELSE r

\* MacroRecorder::add_event: appends while Recording; the event is
\* discarded while Paused, and the timeline is not touched after stop().
RecorderAddEvent(r, event) ==
    IF r.state = "Recording" THEN [r EXCEPT !.events = Append(@, event)] ELSE r

\* MacroRecorder::pause and MacroRecorder::resume: Recording to Paused and
\* back.
RecorderPause(r) == IF r.state = "Recording" THEN [r EXCEPT !.state = "Paused"] ELSE r

RecorderResume(r) == IF r.state = "Paused" THEN [r EXCEPT !.state = "Recording"] ELSE r

\* MacroRecorder::stop: to Idle.
RecorderStop(r) == [r EXCEPT !.state = "Idle"]

\* The application has been constructed.
AppInit ==
    /\ app = NewApp
    /\ recorder = NewRecorder

AuxInit ==
    /\ codec = NoCodec
    /\ keys = NoKeys
    /\ HooksInit
    /\ AppInit

\* MacroPlayer::new
NewPlayer ==
    [events |-> <<>>, state |-> "Idle", current_position |-> 0,
     start_time |-> None, pause_start |-> None, total_pause_time |-> 0,
     playback_speed |-> DefaultSpeed]

NoLoad == [kind |-> "none", count |-> 0]

Init ==
    /\ player = NewPlayer
    /\ loops = <<>>
    /\ injected = <<>>
    /\ now = 0
    /\ file \in PlayerFiles
    /\ last_load = NoLoad
    /\ panicked = FALSE
    /\ AuxInit

\* The clock advances.
Tick ==
    /\ now < MaxTime
    /\ now' = now + 1
    /\ UNCHANGED <<player, loops, injected, file, last_load, panicked>>
    /\ UNCHANGED aux

\* A load_from_file that pushes the decoded events behind the previous
\* timeline instead of clearing it first.
LoadFromFileAppending ==
    /\ ~panicked
    /\ IF file = None
       THEN /\ last_load' = [kind |-> "Err", count |-> 0]
            /\ UNCHANGED <<player, panicked>>
       ELSE LET decoded == player.events \o DecodeLines(file[1])
            IN  IF SortPanics(decoded)
                THEN /\ panicked' = TRUE
                     /\ player' = [player EXCEPT !.events = decoded]
                     /\ UNCHANGED last_load
                ELSE /\ player' = [player EXCEPT !.events = SortByTimestamp(decoded),
                                                 !.current_position = 0,
                                                 !.state = "Idle"]
                     /\ last_load' = [kind |-> "Ok", count |-> Len(decoded)]
                     /\ UNCHANGED panicked
    /\ UNCHANGED <<loops, injected, now, file>>
    /\ UNCHANGED aux

\* A load_from_file that clears the timeline before it reads the file.
LoadBodyClearingFirst ==
    IF file = None
    THEN /\ last_load' = [kind |-> "Err", count |-> 0]
         /\ player' = [player EXCEPT !.events = <<>>]
         /\ UNCHANGED panicked
    ELSE LET decoded == DecodeLines(file[1])
         IN  IF SortPanics(decoded)
             THEN /\ panicked' = TRUE
                  /\ player' = [player EXCEPT !.events = decoded]
                  /\ UNCHANGED last_load
             ELSE /\ player' = [player EXCEPT !.events = SortByTimestamp(decoded),
                                              !.current_position = 0,
                                              !.state = "Idle"]
                  /\ last_load' = [kind |-> "Ok", count |-> Len(decoded)]
                  /\ UNCHANGED panicked

\* The body of MacroPlayer::load_from_file.
LoadBody ==
    IF file = None
    THEN /\ last_load' = [kind |-> "Err", count |-> 0]
         /\ UNCHANGED <<player, panicked>>
    ELSE LET decoded == DecodeLines(file[1])
         IN  IF SortPanics(decoded)
             THEN /\ panicked' = TRUE
                  /\ player' = [player EXCEPT !.events = decoded]
                  /\ UNCHANGED last_load
             ELSE /\ player' = [player EXCEPT !.events = SortByTimestamp(decoded),
                                              !.current_position = 0,
                                              !.state = "Idle"]
                  /\ last_load' = [kind |-> "Ok", count |-> Len(decoded)]
                  /\ UNCHANGED panicked

\* MacroPlayer::load_from_file
LoadFromFile ==
    /\ ~panicked
    /\ LoadBody
    /\ UNCHANGED <<loops, injected, now, file>>
    /\ UNCHANGED aux

\* A set_speed that reaches the loops in flight: the speed is shared with
\* them instead of copied at start().
SetSpeedShared(speed) ==
    /\ ~panicked
    /\ player' = [player EXCEPT !.playback_speed = ClampSpeed(speed).v]
    /\ loops' = [t \in DOMAIN loops |->
                    IF loops[t].pc \in {"done", "panicked"} THEN loops[t]
                    ELSE [loops[t] EXCEPT !.speed = ClampSpeed(speed).v]]
    /\ UNCHANGED <<injected, now, file, last_load, panicked>>
    /\ UNCHANGED aux

\* MacroPlayer::set_speed
SetSpeed(speed) ==
    /\ ~panicked
    /\ player' = [player EXCEPT !.playback_speed = ClampSpeed(speed).v]
    /\ UNCHANGED <<loops, injected, now, file, last_load, panicked>>
    /\ UNCHANGED aux

\* The thread start() spawns: play_events(events.clone(), speed).
NewLoop(events, speed) ==
    [events |-> events, speed |-> speed, pc |-> "spawned", start_time |-> 0,
     index |-> 0, last_event_time |-> Fin(0)]

\* The session start() leaves when the timeline is not empty.
Started(p) ==
    [p EXCEPT !.state = "Playing",
              !.current_position = 0,
              !.start_time = Some(now),
              !.pause_start = None,
              !.total_pause_time = 0]

\* MacroPlayer::start
Start ==
    /\ ~panicked
    /\ IF player.events # <<>>
       THEN /\ Len(loops) < MaxLoops
            /\ player' = Started(player)
            /\ loops' = Append(loops, NewLoop(player.events, player.playback_speed))
       ELSE UNCHANGED <<player, loops>>
    /\ UNCHANGED <<injected, now, file, last_load, panicked>>
    /\ UNCHANGED aux

\* A pause() that does not look at the state.
PausedFromAnyState(p) == [p EXCEPT !.state = "Paused", !.pause_start = Some(now)]

\* The session pause() leaves.
Paused(p) ==
    IF p.state = "Playing"
    THEN [p EXCEPT !.state = "Paused", !.pause_start = Some(now)]
    ELSE p

\* MacroPlayer::pause
Pause ==
    /\ ~panicked
    /\ player' = Paused(player)
    /\ UNCHANGED <<loops, injected, now, file, last_load, panicked>>
    /\ UNCHANGED aux

\* pause_start.take(), then total_pause_time += pause_start.elapsed()
TakePauseStart(p) ==
    IF p.pause_start # None
    THEN [p EXCEPT !.pause_start = None,
                   !.total_pause_time = @ + (now - p.pause_start[1])]
    ELSE p

\* The session resume() leaves.
Resumed(p) ==
    IF p.state = "Paused" THEN TakePauseStart([p EXCEPT !.state = "Playing"]) ELSE p

\* MacroPlayer::resume
Resume ==
    /\ ~panicked
    /\ player' = Resumed(player)
    /\ UNCHANGED <<loops, injected, now, file, last_load, panicked>>
    /\ UNCHANGED aux

\* A stop() that goes back to Idle.
StopStateIdle == "Idle"

\* The state stop() leaves the player in.
StopState == "Stopped"

\* The session stop() leaves.
Stopped(p) == TakePauseStart([p EXCEPT !.state = StopState])

\* MacroPlayer::stop
Stop ==
    /\ ~panicked
    /\ player' = Stopped(player)
    /\ UNCHANGED <<loops, injected, now, file, last_load, panicked>>
    /\ UNCHANGED aux

\* ------------------------------------------------------ the scheduling loop

Live(l) == l.pc \notin {"done", "panicked"}

\* Duration::from_secs_f64 panics on a negative, NaN or infinite argument.
FromSecsPanics(timestamp) == timestamp.cls # "fin" \/ timestamp.v < 0

\* target_time > start_time.elapsed(), target_time being timestamp / speed:
\* (v + sub / SubPerSec) * 10 > elapsed * speed, without the quotient.
TargetAhead(l, timestamp, t) ==
    LET behind == (t - l.start_time) * l.speed - timestamp.v * 10
    IN  behind < 0 \/ (behind < 10 /\ timestamp.sub * 10 > behind * SubPerSec)

\* play_events up to the loop: the thread takes its own start instant.
LoopBegin(t) ==
    /\ ~panicked
    /\ loops[t].pc = "spawned"
    /\ loops' = [loops EXCEPT ![t].pc = IF loops[t].events = <<>> THEN "done" ELSE "running",
                              ![t].start_time = now]
    /\ UNCHANGED <<player, injected, now, file, last_load, panicked>>
    /\ UNCHANGED aux

\* One iteration of the loop over the events: the target time is computed
\* (the thread panics when it is no Duration), the thread sleeps until the
\* target time has come, the event is executed; after the last event
\* play_events returns.  A thread that has ended keeps what it has executed
\* and no start instant.
LoopIterate(t) ==
    /\ ~panicked
    /\ loops[t].pc = "running"
    /\ LET l == loops[t]
           event == l.events[l.index + 1]
       IN  IF FromSecsPanics(event.timestamp)
           THEN /\ loops' = [loops EXCEPT ![t].pc = "panicked", ![t].start_time = 0]
                /\ UNCHANGED injected
           ELSE /\ ~TargetAhead(l, event.timestamp, now)
                /\ injected' = injected \o ExecuteEvent(event)
                /\ loops' = [loops EXCEPT
                       ![t].pc = IF l.index + 1 = Len(l.events) THEN "done" ELSE "running",
                       ![t].start_time = IF l.index + 1 = Len(l.events) THEN 0 ELSE @,
                       ![t].index = @ + 1,
                       ![t].last_event_time = event.timestamp]
    /\ UNCHANGED <<player, now, file, last_load, panicked>>
    /\ UNCHANGED aux

Next ==
    \/ Tick
    \/ LoadFromFile
    \/ \E f \in Factors : SetSpeed(f)
    \/ Start
    \/ Pause
    \/ Resume
    \/ Stop
    \/ \E t \in DOMAIN loops : LoopBegin(t)
    \/ \E t \in DOMAIN loops : LoopIterate(t)

Spec == Init /\ [][Next]_vars

\* The session at one instant: every operation of the player with every
\* factor, and the loops, while the clock stands.
NextSession ==
    \/ LoadFromFile
    \/ \E f \in AllFactors : SetSpeed(f)
    \/ Start
    \/ Pause
    \/ Resume
    \/ Stop
    \/ \E t \in DOMAIN loops : LoopBegin(t)
    \/ \E t \in DOMAIN loops : LoopIterate(t)

SpecSession == Init /\ [][NextSession]_vars

\* The decoder and the sort of load_from_file on every file.
InitLoad ==
    /\ player = NewPlayer
    /\ loops = <<>>
    /\ injected = <<>>
    /\ now = 0
    /\ file \in AllFiles
    /\ last_load = NoLoad
    /\ panicked = FALSE
    /\ AuxInit

NextLoad == LoadFromFile

SpecLoad == InitLoad /\ [][NextLoad]_vars

\* ------------------------------------------------- the codec, on its own

\* The player stands still.
PlayerIdle ==
    /\ player = NewPlayer
    /\ loops = <<>>
    /\ injected = <<>>
    /\ now = 0
    /\ file = None
    /\ last_load = NoLoad
    /\ panicked = FALSE

playerVars == <<player, loops, injected, now, file, last_load, panicked>>

Event(timestamp, event_type, data) ==
    [timestamp |-> timestamp, event_type |-> event_type, data |-> data]

\* serde_json::json!({..}) of up to three members.
Json1(k1, v1) == MapInsert(EmptyMap, k1, v1)

Json2(k1, v1, k2, v2) == MapInsert(Json1(k1, v1), k2, v2)

Json3(k1, v1, k2, v2, k3, v3) == MapInsert(Json2(k1, v1, k2, v2), k3, v3)

\* The timestamps of the events handed to the encoder: 0, 2, 1.234567 and
\* 1.2345678 seconds.
CodecTimestamps == {Fin(0), Fin(2), FinSub(1, 2345670), FinSub(1, 2345678)}

\* Every name of the key-name table.
KeyNames == {VkCodeToString(c) : c \in 1..MaxVkCode}

\* The button codes, the coordinates and the raw scroll deltas of the events
\* handed to the encoder.
ButtonCodes == {-1, 0, 1, 2, 3, 4}

Points == {<<100, 200>>, <<-1, 0>>}

Deltas == {-240, -120, 0, 120, 240}

\* The events handed to the encoder: those the hooks build (the key events
\* with their three members, the others with the members of their kind),
\* the key events of one member, and events that lack a member.
CodecEvents ==
    UNION {
        {Event(ts, ty, Json1("key_name", JStr(name))) :
            ty \in {"KeyDown", "KeyUp"}, name \in KeyNames}
        \cup {Event(ts, "KeyDown",
                    Json3("vk_code", JNum(65), "scan_code", JNum(30), "key_name", JStr("a"))),
              Event(ts, "KeyUp", EmptyMap),
              Event(ts, "MouseMove", Json1("x", JNum(100)))}
        \cup {Event(ts, "MouseMove", Json2("x", JNum(pt[1]), "y", JNum(pt[2]))) :
                pt \in Points}
        \cup {Event(ts, ty, Json3("x", JNum(pt[1]), "y", JNum(pt[2]), "button", JNum(b))) :
                ty \in {"MouseDown", "MouseUp"}, pt \in Points, b \in ButtonCodes}
        \cup {Event(ts, "MouseScroll",
                    Json3("x", JNum(pt[1]), "y", JNum(pt[2]), "delta", JNum(d))) :
                pt \in Points, d \in Deltas}
        : ts \in CodecTimestamps}

LineUp2 ==
    <<Plain("2.000000"), Plain("MUP"), KV("button", "left"), KV("x", "100"), KV("y", "200")>>

LineScroll0 ==
    <<Plain("0.000000"), Plain("MSCROLL"), KV("dx", "0"), KV("dy", "-1"),
      KV("x", "100"), KV("y", "200")>>

LineLowerCode == <<Plain("1.000000"), Plain("kdown"), KV("char", "a")>>

LineNoCode == <<Plain("1.000000"), Plain("")>>

LineCommentFields == <<Plain("#"), Plain("KDOWN"), KV("char", "a")>>

LineNegInf == <<Plain("-inf"), Plain("MMOVE"), KV("x", "100"), KV("y", "200")>>

LineBareCode == <<Plain("2.000000"), Plain("KDOWN")>>

\* The texts handed to the decoder.
CodecLines ==
    {RawText(line) :
        line \in LineVocab \cup {LineUp2, LineScroll0, LineLowerCode, LineNoCode,
                                 LineCommentFields, LineNegInf, LineBareCode}}

InitCodec ==
    /\ PlayerIdle
    /\ keys = NoKeys
    /\ HooksInit
    /\ AppInit
    /\ codec \in {[NoCodec EXCEPT !.step = "event", !.event = Some(e)] : e \in CodecEvents}
               \cup {[NoCodec EXCEPT !.step = "line", !.line = Some(l)] : l \in CodecLines}

\* to_mcr_line on the event.
Encode ==
    /\ codec.step = "event"
    /\ codec' = [codec EXCEPT !.step = "line", !.line = Some(ToMcrLine(codec.event[1]))]
    /\ UNCHANGED <<playerVars, keys, hooks, GLOBAL_HOOKS, os_hooks, callback_calls, appVars>>

\* from_mcr_line on the line.
Decode ==
    /\ codec.step = "line"
    /\ codec' = [codec EXCEPT !.step = "decoded",
                              !.decoded = FromMcrLine(SplitLine(codec.line[1]))]
    /\ UNCHANGED <<playerVars, keys, hooks, GLOBAL_HOOKS, os_hooks, callback_calls, appVars>>

NextCodec == Encode \/ Decode

SpecCodec == InitCodec /\ [][NextCodec]_vars

\* ------------------------------------------ the key-name tables, on their own

InitKeys ==
    /\ PlayerIdle
    /\ codec = NoCodec
    /\ HooksInit
    /\ AppInit
    /\ keys \in {[NoKeys EXCEPT !.step = "code", !.code = c] : c \in 1..MaxVkCode}

\* vk_code_to_string on the key code.
NameKey ==
    /\ keys.step = "code"
    /\ keys' = [keys EXCEPT !.step = "name", !.name = VkCodeToString(keys.code)]
    /\ UNCHANGED <<playerVars, codec, hooks, GLOBAL_HOOKS, os_hooks, callback_calls, appVars>>

\* key_name_to_vk_code on the name.
CodeKey ==
    /\ keys.step = "name"
    /\ keys' = [keys EXCEPT !.step = "back", !.back = KeyNameToVkCode(keys.name)]
    /\ UNCHANGED <<playerVars, codec, hooks, GLOBAL_HOOKS, os_hooks, callback_calls, appVars>>

NextKeys == NameKey \/ CodeKey

SpecKeys == InitKeys /\ [][NextKeys]_vars

\* ---------------------------------------------------------- the hook adapter

\* A hook handle of the OS: the procedure it calls, and which call of
\* install() registered it.
Handle(proc, n) == [proc |-> proc, serial |-> n]

\* The handles a GlobalHooks value holds.
Handles(g) ==
    (IF g.keyboard_hook # None THEN {g.keyboard_hook[1]} ELSE {})
    \cup (IF g.mouse_hook # None THEN {g.mouse_hook[1]} ELSE {})

\* What the OS answers to install(): no module handle, no keyboard hook, no
\* mouse hook, or both hooks.
InstallOutcomes == {"no_module", "no_keyboard", "no_mouse", "ok"}

\* Dropping the value the global handle held runs GlobalHooks::drop on it:
\* uninstall() (the try_lock fails, the lock is held by the caller) unhooks
\* the handles the copy holds, then the callback Box is released.  Releasing
\* a Box that is freed already is a double free: the process goes on or
\* dies.
CrashOutcomes(old) ==
    IF old # None /\ hooks.callback = "freed" THEN {FALSE, TRUE} ELSE {FALSE}

CallbackAfterDrop(old) == IF old # None THEN "freed" ELSE hooks.callback

RegisteredAfterDrop(old) ==
    IF old # None THEN os_hooks.registered \ Handles(old[1]) ELSE os_hooks.registered

\* A hook procedure holds the lock of GLOBAL_HOOKS from its entry on a key
\* or mouse event (n_code >= 0) until it returns.
LockHeld == os_hooks.call # None /\ os_hooks.call[1].n_code >= 0

\* The body of GlobalHooks::install: the session is copied into
\* GLOBAL_HOOKS as it stands, the value the handle held is dropped, then
\* the hooks are registered and the start instant is taken.
InstallBody(outcome, crash) ==
    LET n == os_hooks.installs + 1
        keyboard == Handle("keyboard", n)
        mouse == Handle("mouse", n)
        freed == [hooks EXCEPT !.callback = CallbackAfterDrop(GLOBAL_HOOKS)]
        left == RegisteredAfterDrop(GLOBAL_HOOKS)
    IN  /\ GLOBAL_HOOKS' = Some(hooks)
        /\ hooks' =
              CASE outcome \in {"no_module", "no_keyboard"} -> freed
                [] outcome = "no_mouse" -> [freed EXCEPT !.keyboard_hook = Some(keyboard)]
                [] OTHER -> [freed EXCEPT !.keyboard_hook = Some(keyboard),
                                          !.mouse_hook = Some(mouse),
                                          !.start_time = now]
        /\ os_hooks' =
              [os_hooks EXCEPT
                 !.installs = n,
                 !.crashed = crash,
                 !.last = IF outcome = "ok" THEN "install_ok" ELSE "install_err",
                 !.registered =
                    CASE outcome \in {"no_module", "no_keyboard"} -> left
                      [] outcome = "no_mouse" -> left \cup {keyboard}
                      [] OTHER -> left \cup {keyboard, mouse}]

\* GlobalHooks::install, called by start_recording while the application is
\* Idle: the last install() did not succeed, or uninstall() has been called
\* since.  lock() waits for a hook procedure to return.
Install ==
    /\ ~os_hooks.crashed
    /\ os_hooks.call = None
    /\ os_hooks.installs < MaxInstalls
    /\ hooks.mouse_hook = None
    /\ \E outcome \in InstallOutcomes, crash \in CrashOutcomes(GLOBAL_HOOKS) :
          InstallBody(outcome, crash)
    /\ UNCHANGED <<playerVars, codec, keys, callback_calls, appVars>>

\* What the drop in uninstall() may do to the process: nothing is dropped
\* when try_lock fails.
UninstallCrashOutcomes == IF LockHeld THEN {FALSE} ELSE CrashOutcomes(GLOBAL_HOOKS)

\* The body of GlobalHooks::uninstall: the handle is cleared if try_lock
\* gets the lock, which drops the copy; then the hooks of the session are
\* released.
UninstallBody(crash) ==
    IF LockHeld
    THEN /\ UNCHANGED GLOBAL_HOOKS
         /\ hooks' = [hooks EXCEPT !.keyboard_hook = None, !.mouse_hook = None]
         /\ os_hooks' = [os_hooks EXCEPT
                           !.last = "uninstall",
                           !.registered = os_hooks.registered \ Handles(hooks)]
    ELSE /\ GLOBAL_HOOKS' = None
         /\ hooks' = [hooks EXCEPT !.callback = CallbackAfterDrop(GLOBAL_HOOKS),
                                   !.keyboard_hook = None,
                                   !.mouse_hook = None]
         /\ os_hooks' = [os_hooks EXCEPT
                           !.crashed = crash,
                           !.last = "uninstall",
                           !.registered = RegisteredAfterDrop(GLOBAL_HOOKS) \ Handles(hooks)]

\* GlobalHooks::uninstall, called by stop_current_action while the
\* application records; a hook procedure may be running.
Uninstall ==
    /\ ~os_hooks.crashed
    /\ hooks.mouse_hook # None
    /\ \E crash \in UninstallCrashOutcomes : UninstallBody(crash)
    /\ UNCHANGED <<playerVars, codec, keys, callback_calls, appVars>>

\* The messages the OS hands the keyboard procedure, and the scan code.
KeyMessages == {"WM_KEYDOWN", "WM_KEYUP", "WM_SYSKEYDOWN", "WM_SYSKEYUP"}

ScanCode == 30

\* A hot key without its Control filter.
IsHotkeyCodeNoControl(vk_code) ==
    \/ (vk_code >= 82 /\ vk_code <= 82)
    \/ (vk_code >= 80 /\ vk_code <= 80)
    \/ (vk_code >= 81 /\ vk_code <= 81)

\* The codes keyboard_hook_proc does not hand on: Control, R, P, Q.
IsHotkeyCode(vk_code) ==
    \/ vk_code = VK.CONTROL
    \/ (vk_code >= 82 /\ vk_code <= 82)
    \/ (vk_code >= 80 /\ vk_code <= 80)
    \/ (vk_code >= 81 /\ vk_code <= 81)

\* callback(event): the call is made; through a freed Box it is a use after
\* free, the process goes on or dies.
CallCallback(call, event) ==
    /\ callback_calls' = <<event>>
    /\ \E crash \in (IF hooks.callback = "freed" THEN {FALSE, TRUE} ELSE {FALSE}) :
          os_hooks' = [os_hooks EXCEPT !.call = Some(call), !.crashed = crash]

\* The hook procedure makes no call of the callback.
NoCallback(call) ==
    /\ callback_calls' = <<>>
    /\ os_hooks' = [os_hooks EXCEPT !.call = Some(call)]

\* keyboard_hook_proc, with handle_keyboard_event: the OS calls it while a
\* keyboard hook is registered.
KeyboardHookProc(n_code, w_param, vk_code) ==
    /\ ~os_hooks.crashed
    /\ os_hooks.call = None
    /\ \E h \in os_hooks.registered : h.proc = "keyboard"
    /\ LET call == [proc |-> "keyboard", n_code |-> n_code, w_param |-> w_param,
                    vk_code |-> vk_code]
           is_key_down == w_param \in {"WM_KEYDOWN", "WM_SYSKEYDOWN"}
       IN  IF n_code >= 0 /\ GLOBAL_HOOKS # None /\ ~IsHotkeyCode(vk_code)
           THEN CallCallback(call,
                    Event(Fin(now - GLOBAL_HOOKS[1].start_time),
                          IF is_key_down THEN "KeyDown" ELSE "KeyUp",
                          Json3("vk_code", JNum(vk_code), "scan_code", JNum(ScanCode),
                                "key_name", JStr(VkCodeToString(vk_code)))))
           ELSE NoCallback(call)
    /\ UNCHANGED <<playerVars, codec, keys, hooks, GLOBAL_HOOKS, appVars>>

\* The messages the OS hands the mouse procedure: WM_RBUTTONDBLCLK stands
\* for the messages mouse_hook_proc does not match.
MouseMessages ==
    {"WM_MOUSEMOVE", "WM_LBUTTONDOWN", "WM_LBUTTONUP", "WM_RBUTTONDOWN", "WM_RBUTTONUP",
     "WM_MBUTTONDOWN", "WM_MBUTTONUP", "WM_MOUSEWHEEL", "WM_RBUTTONDBLCLK"}

\* The position of the cursor and the delta of the wheel in the messages.
CursorAt == <<100, 200>>

WheelDelta == -120

\* handle_mouse_event's event.
MouseEvent(event_type, button, delta) ==
    LET at == Json2("x", JNum(CursorAt[1]), "y", JNum(CursorAt[2]))
        with_button == IF button # None THEN MapInsert(at, "button", JNum(button[1])) ELSE at
    IN  Event(Fin(now - GLOBAL_HOOKS[1].start_time), event_type,
              IF delta # None THEN MapInsert(with_button, "delta", JNum(delta[1]))
              ELSE with_button)

\* mouse_hook_proc, with handle_mouse_event.
MouseHookProc(n_code, w_param) ==
    /\ ~os_hooks.crashed
    /\ os_hooks.call = None
    /\ \E h \in os_hooks.registered : h.proc = "mouse"
    /\ LET call == [proc |-> "mouse", n_code |-> n_code, w_param |-> w_param, vk_code |-> 0]
       IN  IF n_code >= 0 /\ GLOBAL_HOOKS # None /\ w_param # "WM_RBUTTONDBLCLK"
           THEN CallCallback(call,
                    CASE w_param = "WM_MOUSEMOVE" -> MouseEvent("MouseMove", None, None)
                      [] w_param = "WM_LBUTTONDOWN" -> MouseEvent("MouseDown", Some(1), None)
                      [] w_param = "WM_LBUTTONUP" -> MouseEvent("MouseUp", Some(1), None)
                      [] w_param = "WM_RBUTTONDOWN" -> MouseEvent("MouseDown", Some(2), None)
                      [] w_param = "WM_RBUTTONUP" -> MouseEvent("MouseUp", Some(2), None)
                      [] w_param = "WM_MBUTTONDOWN" -> MouseEvent("MouseDown", Some(3), None)
                      [] w_param = "WM_MBUTTONUP" -> MouseEvent("MouseUp", Some(3), None)
                      [] OTHER -> MouseEvent("MouseScroll", None, Some(WheelDelta)))
           ELSE NoCallback(call)
    /\ UNCHANGED <<playerVars, codec, keys, hooks, GLOBAL_HOOKS, appVars>>

\* The callback the application has set runs, if the procedure has called
\* it: recorder.add_event(event) under the recorder's lock; then the hook
\* procedure returns through CallNextHookEx and lets go of the lock of
\* GLOBAL_HOOKS.
HookReturn ==
    /\ ~os_hooks.crashed
    /\ os_hooks.call # None
    /\ os_hooks' = [os_hooks EXCEPT !.call = None]
    /\ recorder' = IF callback_calls # <<>>
                   THEN RecorderAddEvent(recorder, callback_calls[1])
                   ELSE recorder
    /\ callback_calls' = <<>>
    /\ UNCHANGED <<playerVars, codec, keys, hooks, GLOBAL_HOOKS, app>>

InitHooks ==
    /\ PlayerIdle
    /\ codec = NoCodec
    /\ keys = NoKeys
    /\ HooksInit
    /\ AppInit

NextHooks ==
    \/ Install
    \/ Uninstall
    \/ \E n_code \in {-1, 0}, w_param \in KeyMessages, vk_code \in 1..MaxVkCode :
          KeyboardHookProc(n_code, w_param, vk_code)
    \/ \E n_code \in {-1, 0}, w_param \in MouseMessages : MouseHookProc(n_code, w_param)
    \/ HookReturn

SpecHooks == InitHooks /\ [][NextHooks]_vars

\* ---------------------------------------------------------- the application

\* The file the menu entry "Open .mcr" names.
DemoFile == "demo.mcr"

\* A recording session may be started: the application lives, and
\* install() gets the lock of GLOBAL_HOOKS (no hook procedure holds it).
CanInstall ==
    /\ ~os_hooks.crashed
    /\ ~panicked
    /\ os_hooks.call = None
    /\ os_hooks.installs < MaxInstalls

\* MacroApp::start_recording: in Idle the recorder is cleared and started,
\* then the hooks are installed; when install() fails the state of the
\* application goes back to Idle.
StartRecording ==
    /\ CanInstall
    /\ app.state = "Idle"
    /\ recorder' = RecorderStart(RecorderClear(recorder))
    /\ \E outcome \in InstallOutcomes, crash \in CrashOutcomes(GLOBAL_HOOKS) :
          /\ InstallBody(outcome, crash)
          /\ app' = [app EXCEPT !.state = IF outcome = "ok" THEN "Recording" ELSE "Idle"]
    /\ UNCHANGED <<playerVars, codec, keys, callback_calls>>

\* pause_resume_recording that leaves the recorder alone.
PauseResumeRecordingStateOnly ==
    /\ ~os_hooks.crashed
    /\ ~panicked
    /\ app.state # "Idle"
    /\ app' = [app EXCEPT !.state =
                  CASE app.state = "Recording" -> "RecordingPaused"
                    [] app.state = "RecordingPaused" -> "Recording"
                    [] app.state = "Playing" -> "PlayingPaused"
                    [] OTHER -> "Playing"]
    /\ player' = CASE app.state = "Playing" -> Paused(player)
                   [] app.state = "PlayingPaused" -> Resumed(player)
                   [] OTHER -> player
    /\ UNCHANGED <<loops, injected, now, file, last_load, panicked>>
    /\ UNCHANGED <<codec, keys, hooks, GLOBAL_HOOKS, os_hooks, callback_calls, recorder>>

\* MacroApp::pause_resume_recording: the four arms; nothing in Idle.
PauseResumeRecording ==
    /\ ~os_hooks.crashed
    /\ ~panicked
    /\ app.state # "Idle"
    /\ app' = [app EXCEPT !.state =
                  CASE app.state = "Recording" -> "RecordingPaused"
                    [] app.state = "RecordingPaused" -> "Recording"
                    [] app.state = "Playing" -> "PlayingPaused"
                    [] OTHER -> "Playing"]
    /\ recorder' = CASE app.state = "Recording" -> RecorderPause(recorder)
                     [] app.state = "RecordingPaused" -> RecorderResume(recorder)
                     [] OTHER -> recorder
    /\ player' = CASE app.state = "Playing" -> Paused(player)
                   [] app.state = "PlayingPaused" -> Resumed(player)
                   [] OTHER -> player
    /\ UNCHANGED <<loops, injected, now, file, last_load, panicked>>
    /\ UNCHANGED <<codec, keys, hooks, GLOBAL_HOOKS, os_hooks, callback_calls>>

\* stop_current_action that leaves the recorder alone.
StopCurrentActionNoRecorderStop ==
    /\ ~os_hooks.crashed
    /\ ~panicked
    /\ app.state # "Idle"
    /\ app' = [app EXCEPT !.state = "Idle"]
    /\ IF app.state \in {"Recording", "RecordingPaused"}
       THEN /\ \E crash \in UninstallCrashOutcomes : UninstallBody(crash)
            /\ UNCHANGED <<recorder, player>>
       ELSE /\ player' = Stopped(player)
            /\ UNCHANGED <<hooks, GLOBAL_HOOKS, os_hooks, recorder>>
    /\ UNCHANGED <<loops, injected, now, file, last_load, panicked>>
    /\ UNCHANGED <<codec, keys, callback_calls>>

\* MacroApp::stop_current_action: while recording the hooks are
\* uninstalled (a hook procedure may be running) and the recorder is
\* stopped; while playing the player is stopped; nothing in Idle.
StopCurrentAction ==
    /\ ~os_hooks.crashed
    /\ ~panicked
    /\ app.state # "Idle"
    /\ app' = [app EXCEPT !.state = "Idle"]
    /\ IF app.state \in {"Recording", "RecordingPaused"}
       THEN /\ \E crash \in UninstallCrashOutcomes : UninstallBody(crash)
            /\ recorder' = RecorderStop(recorder)
            /\ UNCHANGED player
       ELSE /\ player' = Stopped(player)
            /\ UNCHANGED <<hooks, GLOBAL_HOOKS, os_hooks, recorder>>
    /\ UNCHANGED <<loops, injected, now, file, last_load, panicked>>
    /\ UNCHANGED <<codec, keys, callback_calls>>

\* MacroRecorder::save_to_file: one encoded line for each event of the
\* timeline.
SavedLines(r) == [i \in 1..Len(r.events) |-> SplitLine(ToMcrLine(r.events[i]))]

\* MacroApp::save_recording: the dialog has given a path and the file
\* system takes the file or does not; the path is kept when it does.
SaveRecording(path, written) ==
    /\ ~os_hooks.crashed
    /\ ~panicked
    /\ IF written
       THEN /\ app' = [app EXCEPT !.current_file = Some(path)]
            /\ file' = IF path = DemoFile THEN Some(SavedLines(recorder)) ELSE file
       ELSE UNCHANGED <<app, file>>
    /\ UNCHANGED <<player, loops, injected, now, last_load, panicked>>
    /\ UNCHANGED <<codec, keys, hooks, GLOBAL_HOOKS, os_hooks, callback_calls, recorder>>

\* load_from_file returns Ok.
LoadOk == file # None /\ ~SortPanics(DecodeLines(file[1]))

\* MacroApp::load_recording, called with "demo.mcr" by the menu in every
\* state of the application: the path is kept when the load returns Ok.
LoadRecording ==
    /\ ~os_hooks.crashed
    /\ ~panicked
    /\ LoadBody
    /\ app' = IF LoadOk THEN [app EXCEPT !.current_file = Some(DemoFile)] ELSE app
    /\ UNCHANGED <<loops, injected, now, file>>
    /\ UNCHANGED <<codec, keys, hooks, GLOBAL_HOOKS, os_hooks, callback_calls, recorder>>

\* MacroApp::start_playback: in Idle with a file named, the state becomes
\* Playing, then set_speed and start() of the player.
StartPlayback ==
    /\ ~os_hooks.crashed
    /\ ~panicked
    /\ app.state = "Idle"
    /\ app.current_file # None
    /\ app' = [app EXCEPT !.state = "Playing"]
    /\ LET speed == ClampSpeed(Fin(app.playback_speed)).v
       IN  IF player.events # <<>>
           THEN /\ Len(loops) < MaxLoops
                /\ player' = Started([player EXCEPT !.playback_speed = speed])
                /\ loops' = Append(loops, NewLoop(player.events, speed))
           ELSE /\ player' = [player EXCEPT !.playback_speed = speed]
                /\ UNCHANGED loops
    /\ UNCHANGED <<injected, now, file, last_load, panicked>>
    /\ UNCHANGED <<codec, keys, hooks, GLOBAL_HOOKS, os_hooks, callback_calls, recorder>>

\* The file "demo.mcr" is removed or made unreadable by another program:
\* the next read_to_string fails.
RemoveFile ==
    /\ file # None
    /\ file' = None
    /\ UNCHANGED <<player, loops, injected, now, last_load, panicked>>
    /\ UNCHANGED aux

\* The keys pressed while a session is recorded: a and the hot key q.
RecordedKeys == {65, 81}

\* A recording session: the application, the hooks and the recorder while
\* the clock runs; the OS calls the hook procedures with a key press (or a
\* message to be passed on, n_code < 0) and with a move of the mouse, until
\* MaxRecorded events are in the timeline.
InitRecording ==
    /\ PlayerIdle
    /\ codec = NoCodec
    /\ keys = NoKeys
    /\ HooksInit
    /\ AppInit

NextRecording ==
    \/ Tick
    \/ StartRecording
    \/ PauseResumeRecording
    \/ StopCurrentAction
    \/ /\ Len(recorder.events) < MaxRecorded
       /\ \E n_code \in {-1, 0}, vk_code \in RecordedKeys :
             KeyboardHookProc(n_code, "WM_KEYDOWN", vk_code)
    \/ /\ Len(recorder.events) < MaxRecorded
       /\ MouseHookProc(0, "WM_MOUSEMOVE")
    \/ HookReturn

SpecRecording == InitRecording /\ [][NextRecording]_vars

\* The events of a recorded timeline, as the hook procedures build them.
KeyEvent(ts, event_type, vk_code) ==
    Event(Fin(ts), event_type,
          Json3("vk_code", JNum(vk_code), "scan_code", JNum(ScanCode),
                "key_name", JStr(VkCodeToString(vk_code))))

PointerEvent(ts, event_type, button, delta) ==
    LET at == Json2("x", JNum(CursorAt[1]), "y", JNum(CursorAt[2]))
        with_button == IF button # None THEN MapInsert(at, "button", JNum(button[1])) ELSE at
    IN  Event(Fin(ts), event_type,
              IF delta # None THEN MapInsert(with_button, "delta", JNum(delta[1]))
              ELSE with_button)

\* The timelines a recording session has left in the recorder: none, one
\* event of each kind, a press and a release, a move and a turn of the wheel,
\* all of them taken within the first microsecond of the session.
RecordedTimelines ==
    {<<>>,
     <<KeyEvent(0, "KeyDown", 65)>>,
     <<KeyEvent(0, "KeyUp", 65)>>,
     <<PointerEvent(0, "MouseMove", None, None)>>,
     <<PointerEvent(0, "MouseDown", Some(1), None)>>,
     <<PointerEvent(0, "MouseUp", Some(3), None)>>,
     <<PointerEvent(0, "MouseScroll", None, Some(WheelDelta))>>,
     <<KeyEvent(0, "KeyDown", 13), KeyEvent(0, "KeyUp", 13)>>,
     <<PointerEvent(0, "MouseDown", Some(2), None), PointerEvent(0, "MouseUp", Some(2), None)>>,
     <<PointerEvent(0, "MouseMove", None, None),
       PointerEvent(0, "MouseScroll", None, Some(0 - WheelDelta))>>}

\* The hooks after a recording session: install() has succeeded once and
\* uninstall() has dropped the copy in GLOBAL_HOOKS.
HooksAfterRecording ==
    /\ hooks = [NewHooks EXCEPT !.callback = "freed"]
    /\ GLOBAL_HOOKS = None
    /\ os_hooks = [NoOsHooks EXCEPT !.installs = 1, !.last = "uninstall"]
    /\ callback_calls = <<>>

\* A playback session: the application is Idle with no file named, the
\* recorder holds the timeline of a recording session that has ended or
\* none; the timeline is saved, loaded and played at one instant.
InitPlayback ==
    /\ PlayerIdle
    /\ codec = NoCodec
    /\ keys = NoKeys
    /\ app = NewApp
    /\ \E timeline \in RecordedTimelines :
          /\ recorder = [state |-> "Idle", events |-> timeline]
          /\ IF timeline = <<>> THEN HooksInit ELSE HooksAfterRecording

NextPlayback ==
    \/ \E path \in {DemoFile, "other.mcr"}, written \in BOOLEAN : SaveRecording(path, written)
    \/ RemoveFile
    \/ LoadRecording
    \/ StartPlayback
    \/ PauseResumeRecording
    \/ StopCurrentAction
    \/ \E t \in DOMAIN loops : LoopBegin(t)
    \/ \E t \in DOMAIN loops : LoopIterate(t)

SpecPlayback == InitPlayback /\ [][NextPlayback]_vars

\* A playback followed by a recording: the timeline is saved to "demo.mcr",
\* loaded and played, the playback is stopped or left to end, a recording
\* is started and stopped.
NextOverlap ==
    \/ SaveRecording(DemoFile, TRUE)
    \/ LoadRecording
    \/ StartPlayback
    \/ StartRecording
    \/ StopCurrentAction
    \/ \E t \in DOMAIN loops : LoopBegin(t)
    \/ \E t \in DOMAIN loops : LoopIterate(t)

SpecOverlap == InitPlayback /\ [][NextOverlap]_vars

TypeOK ==
    /\ player.state \in {"Idle", "Playing", "Paused", "Stopped"}
    /\ player.playback_speed \in MinSpeed..MaxSpeed
    /\ now \in 0..MaxTime
    /\ Len(loops) <= MaxLoops

\* ------------------------------------------------------------------ claims

LiveLoops == {t \in DOMAIN loops : Live(loops[t])}

\* The loop's own count of the events it has executed does not change.
NoLoopExecutes == \A t \in DOMAIN loops : loops'[t].index = loops[t].index

\* Loop t executes an event in this step.
Executes(t) == loops'[t].index = loops[t].index + 1

\* C1: at most one scheduling loop (play_events thread) is live at any time,
\* whatever the operations of the session.
AtMostOneLiveLoop == Cardinality(LiveLoops) <= 1

\* C2: once stop() has been called and until the next start() or load, no
\* scheduling loop executes an event and the cursor position keeps its value.
NoExecutionAfterStop ==
    [][(player.state = "Stopped" /\ player'.state = "Stopped")
         => /\ NoLoopExecutes
            /\ player'.current_position = player.current_position]_vars

\* C3: while the player is Paused no scheduling loop executes an event.
NoExecutionWhilePaused ==
    [][player.state = "Paused" => NoLoopExecutes]_vars

\* The playback time elapsed, paused time excluded, as the session counts it.
ElapsedPlayback == now - player.start_time[1] - player.total_pause_time

\* C4: paused time does not count against the deadlines: the loop of the
\* playback in progress executes the event of timestamp t only when the
\* playback time elapsed, paused time excluded, has reached t / speed.
PausedTimeNotCounted ==
    [][\A t \in DOMAIN loops :
          (t = Len(loops) /\ player.state = "Playing" /\ Executes(t))
          => loops[t].events[loops[t].index + 1].timestamp.v * 10
                 <= ElapsedPlayback * loops[t].speed]_vars

\* A playback that start() launched once and nothing has paused or stopped.
Uninterrupted ==
    /\ Len(loops) = 1
    /\ player.state = "Playing"
    /\ player.pause_start = None
    /\ player.total_pause_time = 0

\* C5: in an uninterrupted playback every event of the timeline is executed:
\* the scheduling loop does not end before it has executed all of them.
EveryEventExecuted ==
    (Uninterrupted /\ ~Live(loops[1])) => loops[1].index = Len(loops[1].events)

\* C6: during a playback get_current_position() is the index of the next
\* event to be executed: the number of events its scheduling loop has executed.
PositionIsNextIndex ==
    (player.state = "Playing" /\ loops # <<>>)
    => player.current_position = loops[Len(loops)].index

\* C7 as stated: stop() called in Playing or Paused leaves the player Idle.
StopLeavesIdle ==
    [][(player.state \in {"Playing", "Paused"} /\ Stop) => player'.state = "Idle"]_vars

\* C7 as amended: stop() called in Playing or Paused leaves the player in
\* Stopped, a state other than Idle, with the loaded timeline still present.
StopLeavesStopped ==
    [][(player.state \in {"Playing", "Paused"} /\ Stop)
         => /\ player'.state = "Stopped"
            /\ player'.events = player.events]_vars

\* A playback has been started and stopped, its timeline is still loaded.
StoppedWithTimeline ==
    /\ player.state = "Stopped"
    /\ player.start_time # None
    /\ player.events # <<>>

\* What the specification stores for a factor: the nearest value of [0.1, 10.0].
ExpectedSpeed(f) ==
    IF PartialCmp(f, Fin(MinSpeed)) = "Less" THEN MinSpeed
    ELSE IF PartialCmp(f, Fin(MaxSpeed)) = "Greater" THEN MaxSpeed
    ELSE f.v

\* C8: the stored speed always lies in [0.1, 10.0], and set_speed stores 0.1
\* for a factor below 0.1, 10.0 for a factor above 10.0, the factor otherwise.
SpeedClamped ==
    /\ [](player.playback_speed \in MinSpeed..MaxSpeed)
    /\ [][\A f \in AllFactors :
            (f.cls # "nan" /\ SetSpeed(f)) => player'.playback_speed = ExpectedSpeed(f)]_vars

\* A factor outside the range has been stored as the end of the range.
SpeedAtAnEnd ==
    /\ player.playback_speed = MaxSpeed
    /\ \E t \in DOMAIN loops : loops[t].speed = MinSpeed

\* C9: no step changes the speed a scheduling loop plays at, a loop is
\* spawned with the speed stored at its start(), and it executes an event of
\* timestamp t only when the time elapsed has reached t / that speed.
InFlightSpeedKept ==
    [][/\ \A t \in DOMAIN loops : loops'[t].speed = loops[t].speed
       /\ Len(loops') > Len(loops) => loops'[Len(loops')].speed = player.playback_speed
       /\ \A t \in DOMAIN loops :
             Executes(t) => loops[t].events[loops[t].index + 1].timestamp.v * 10
                               <= (now - loops[t].start_time) * loops[t].speed]_vars

\* set_speed has stored another factor while a loop is between two events.
SpeedSetInFlight ==
    \E t \in DOMAIN loops :
        /\ loops[t].pc = "running"
        /\ loops[t].index > 0
        /\ loops[t].speed # player.playback_speed

SortedByTimestamp(s) ==
    \A i, j \in 1..Len(s) :
        i < j => PartialCmp(s[i].timestamp, s[j].timestamp) \in {"Less", "Equal"}

\* The events of one timestamp, in the order they have in s.
AtTimestamp(s, ts) == LET Same(e) == e.timestamp = ts IN SelectSeq(s, Same)

\* C10: after a successful load_from_file the timeline holds the decoded
\* events in non-decreasing timestamp order, the events of equal timestamps
\* in the order of their lines in the file.
LoadSortsStably ==
    last_load.kind = "Ok"
    => LET decoded == DecodeLines(file[1])
       IN  /\ Len(player.events) = Len(decoded)
           /\ SortedByTimestamp(player.events)
           /\ \A i \in 1..Len(decoded) :
                 AtTimestamp(player.events, decoded[i].timestamp)
                     = AtTimestamp(decoded, decoded[i].timestamp)

\* A file written out of order, two of its events with the same timestamp,
\* has been loaded.
LoadedOutOfOrder ==
    /\ last_load.kind = "Ok"
    /\ player.events # DecodeLines(file[1])
    /\ \E i, j \in 1..Len(player.events) :
          /\ i < j
          /\ player.events[i].timestamp = player.events[j].timestamp
          /\ player.events[i] # player.events[j]

\* The lines of a file that the codec decodes.
DecodableLines(content) == {i \in 1..Len(content) : FromMcrLine(content[i]) # None}

\* The number of places an event has in a sequence of events.
Occurrences(s, e) == Cardinality({i \in 1..Len(s) : s[i] = e})

\* C11: a load_from_file that returns a count leaves, from whatever state the
\* player was in, a timeline made of the events decoded from the lines of the
\* file and of nothing else, the count returned being the number of lines
\* the codec decodes, the cursor position 0 and the state Idle.
LoadReplacesTimeline ==
    [][(file # None /\ ~panicked' /\ UNCHANGED <<loops, injected, now>> /\ LoadFromFile)
         => /\ last_load' = [kind |-> "Ok",
                              count |-> Cardinality(DecodableLines(file[1]))]
            /\ Len(player'.events) = Cardinality(DecodableLines(file[1]))
            /\ \A i \in DecodableLines(file[1]) :
                  Occurrences(player'.events, FromMcrLine(file[1][i])[1])
                      = Cardinality({j \in DecodableLines(file[1]) :
                                        FromMcrLine(file[1][j]) = FromMcrLine(file[1][i])})
            /\ player'.current_position = 0
            /\ player'.state = "Idle"]_vars

\* The file has been loaded again after a playback was started on its
\* timeline: the player is back in Idle with a start instant.
ReloadedAfterStart ==
    /\ last_load.kind = "Ok"
    /\ player.state = "Idle"
    /\ player.start_time # None
    /\ player.events # <<>>
    /\ loops # <<>>

\* C12: no file content makes loading or replaying fatal: load_from_file
\* returns a count or an I/O error and the scheduling loop runs to its end,
\* nothing panics in the controlling context or in a scheduling loop.
NothingPanics ==
    /\ ~panicked
    /\ \A t \in DOMAIN loops : loops[t].pc # "panicked"

\* C13: from_mcr_line yields nothing for a line whose first field is no
\* finite non-negative number: every decoded event has a finite timestamp
\* that is not negative.
DecodedTimestampValid ==
    (codec.step = "decoded" /\ codec.decoded # None)
    => /\ codec.decoded[1].timestamp.cls = "fin"
       /\ codec.decoded[1].timestamp.v >= 0

\* The six short codes and the kind each stands for.
KindOfCode ==
    [KDOWN |-> "KeyDown", KUP |-> "KeyUp", MMOVE |-> "MouseMove",
     MDOWN |-> "MouseDown", MUP |-> "MouseUp", MSCROLL |-> "MouseScroll"]

\* A blank text, a text that starts with '#'.
BlankText(text) == text = <<>> \/ text = <<" ">>

CommentText(text) == text # <<>> /\ text[1] \in {"#", "# macro"}

\* The text between the separators ";" of a text, one sequence of tokens for
\* each field.
FieldsOfText(text) == Split(text, ";")

\* The second field of the text is one of the six short codes.
HasKnownCode(text) ==
    /\ Len(FieldsOfText(text)) >= 2
    /\ Len(FieldsOfText(text)[2]) = 1
    /\ FieldsOfText(text)[2][1] \in DOMAIN KindOfCode

\* The first field of the text is the text of a finite number that is not
\* negative.
HasValidTimestamp(text) ==
    /\ Len(FieldsOfText(text)[1]) = 1
    /\ ParseF64(Plain(FieldsOfText(text)[1][1])) # None
    /\ ParseF64(Plain(FieldsOfText(text)[1][1]))[1].cls = "fin"
    /\ ParseF64(Plain(FieldsOfText(text)[1][1]))[1].v >= 0

\* C14: from_mcr_line yields nothing for a blank line, a line that starts
\* with '#', a line of fewer than two fields and a line whose second field
\* is none of the six short codes; for a line with a valid timestamp and one
\* of the six codes it yields an event of the kind the code stands for.
DecodeByCode ==
    codec.step = "decoded"
    => LET text == codec.line[1]
       IN  /\ (BlankText(text) \/ CommentText(text) \/ ~HasKnownCode(text))
                => codec.decoded = None
           /\ (~BlankText(text) /\ ~CommentText(text) /\ HasKnownCode(text)
                /\ HasValidTimestamp(text))
                => /\ codec.decoded # None
                   /\ codec.decoded[1].event_type = KindOfCode[FieldsOfText(text)[2][1]]

\* A line whose code differs from a short code by the case of its letters
\* only has been decoded to nothing.
LowerCodeDecoded ==
    /\ codec.step = "decoded"
    /\ codec.line = Some(RawText(LineLowerCode))
    /\ codec.decoded = None

\* The members the encoding table gives each kind.
LegalKeys(ty) ==
    CASE ty \in {"KeyDown", "KeyUp"} -> {"key_name"}
      [] ty = "MouseMove" -> {"x", "y"}
      [] ty \in {"MouseDown", "MouseUp"} -> {"button", "x", "y"}
      [] OTHER -> {"x", "y", "delta"}

\* An event with a finite timestamp that is not negative and exactly the
\* members of its kind, the key name a text, the others integers.
ValidEvent(e) ==
    /\ e.timestamp.cls = "fin"
    /\ e.timestamp.v >= 0
    /\ DOMAIN e.data = LegalKeys(e.event_type)
    /\ \A k \in DOMAIN e.data : e.data[k].t = IF k = "key_name" THEN "str" ELSE "num"

\* The event handed to the encoder has been encoded and decoded again.
RoundTripDone == codec.step = "decoded" /\ codec.event # None

\* C15: for a valid event of a kind other than MouseScroll, the button of a
\* MouseDown or MouseUp being 1, 2 or 3, from_mcr_line(to_mcr_line(e)) is an
\* event of the same timestamp, kind and attribute map as e.
RoundTripExact ==
    (/\ RoundTripDone
     /\ ValidEvent(codec.event[1])
     /\ codec.event[1].event_type # "MouseScroll"
     /\ codec.event[1].event_type \in {"MouseDown", "MouseUp"}
            => codec.event[1].data["button"].n \in {1, 2, 3})
    => codec.decoded = Some(codec.event[1])

\* The timestamp a line carries: the timestamp rounded to the microsecond.
RoundToMicros(x) ==
    LET micros == (x.v * SubPerSec + x.sub + 5) \div 10
    IN  FinSub(micros \div 1000000, (micros % 1000000) * 10)

\* A valid MouseScroll event has been encoded and decoded again.
ScrollRoundTripDone ==
    /\ RoundTripDone
    /\ ValidEvent(codec.event[1])
    /\ codec.event[1].event_type = "MouseScroll"

\* C16 as stated: the round trip of a MouseScroll event keeps the timestamp,
\* x and y, and yields dy = sign(delta).
ScrollRoundTripAsStated ==
    ScrollRoundTripDone
    => LET e == codec.event[1]
       IN  /\ codec.decoded # None
           /\ codec.decoded[1].event_type = "MouseScroll"
           /\ codec.decoded[1].timestamp = e.timestamp
           /\ {"x", "y", "dy"} \subseteq DOMAIN codec.decoded[1].data
           /\ codec.decoded[1].data["x"] = e.data["x"]
           /\ codec.decoded[1].data["y"] = e.data["y"]
           /\ codec.decoded[1].data["dy"] =
                  JNum(IF e.data["delta"].n > 0 THEN 1
                       ELSE IF e.data["delta"].n < 0 THEN -1 ELSE 0)

\* C16 as amended: the round trip of a MouseScroll event yields a
\* MouseScroll event of the timestamp rounded to the microsecond, with the
\* same x and y, dx = 0, and dy = 1 for a delta above 0, dy = -1 for every
\* other delta, 0 included; the delta itself is not in the decoded event.
ScrollRoundTrip ==
    ScrollRoundTripDone
    => LET e == codec.event[1]
       IN  codec.decoded =
               Some(Event(RoundToMicros(e.timestamp), "MouseScroll",
                          [k \in {"dx", "dy", "x", "y"} |->
                              CASE k = "dx" -> JNum(0)
                                [] k = "dy" -> JNum(IF e.data["delta"].n > 0 THEN 1 ELSE -1)
                                [] OTHER -> e.data[k]]))

\* A MouseScroll event without delta, its timestamp finer than the
\* microsecond, has been encoded and decoded.
ScrollZeroDeltaDecoded ==
    /\ ScrollRoundTripDone
    /\ codec.event[1].data["delta"].n = 0
    /\ codec.event[1].timestamp.sub % 10 # 0
    /\ codec.decoded # None

\* A MouseDown or MouseUp event with integer x, y and button code has been
\* encoded and decoded again.
ButtonRoundTripDone ==
    /\ RoundTripDone
    /\ ValidEvent(codec.event[1])
    /\ codec.event[1].event_type \in {"MouseDown", "MouseUp"}

\* The line carries button=unknown, the decoded event the button 0.
CollapsedToUnknown ==
    /\ Len(FieldsOfText(codec.line[1])) >= 3
    /\ FieldsOfText(codec.line[1])[3] = <<"button", "=", "unknown">>
    /\ codec.decoded # None
    /\ "button" \in DOMAIN codec.decoded[1].data
    /\ codec.decoded[1].data["button"] = JNum(0)

\* The decoded event carries the button code of the event.
ButtonKept ==
    /\ codec.decoded # None
    /\ "button" \in DOMAIN codec.decoded[1].data
    /\ codec.decoded[1].data["button"] = codec.event[1].data["button"]

ExpectedStamp(ts) ==
    CASE ts = Fin(0) -> "0.000000"
      [] ts = Fin(1) -> "1.000000"
      [] ts = Fin(2) -> "2.000000"
      [] ts = FinSub(1, 2345670) -> "1.234567"
      [] ts = FinSub(1, 2345678) -> "1.234568"
      [] OTHER -> "?"

\* The row of the encoding table for the event: the fields after the short
\* code, in their order, each a text key=value.
ExpectedRow(e) ==
    LET d == e.data
        int(k) == <<k, "=", ToString(d[k].n)>>
    IN  CASE e.event_type \in {"KeyDown", "KeyUp"} -> <<<<"char", "=", d["key_name"].s>>>>
          [] e.event_type = "MouseMove" -> <<int("x"), int("y")>>
          [] e.event_type \in {"MouseDown", "MouseUp"} ->
               <<<<"button", "=", CASE d["button"].n = 1 -> "left"
                                    [] d["button"].n = 2 -> "right"
                                    [] d["button"].n = 3 -> "middle"
                                    [] OTHER -> "unknown">>,
                 int("x"), int("y")>>
          [] OTHER ->
               <<<<"dx", "=", "0">>,
                 <<"dy", "=", IF d["delta"].n > 0 THEN "1" ELSE "-1">>,
                 int("x"), int("y")>>

\* The text of a line of the given fields: the fields, a ';' between two.
RECURSIVE Delimited(_)
Delimited(fields) ==
    IF Len(fields) = 1 THEN fields[1]
    ELSE fields[1] \o <<";">> \o Delimited(Tail(fields))

\* An event with the members of its kind has been encoded.
EncodeDone ==
    /\ codec.step \in {"line", "decoded"}
    /\ codec.event # None
    /\ ValidEvent(codec.event[1])

KeyRoundTripDone == keys.step = "back"

\* C19: the key-name table is the same in both directions: for every key code
\* of 1..255, key_name_to_vk_code of vk_code_to_string of the code is the
\* code, and vk_code_to_string of key_name_to_vk_code of a name that
\* vk_code_to_string produces is the name.
KeyTableBothWays ==
    KeyRoundTripDone =>
        /\ keys.back = Some(keys.code)
        /\ VkCodeToString(keys.back[1]) = keys.name

\* The last function key has gone through both tables.
FunctionKeyTurnedBack == KeyRoundTripDone /\ keys.name = "f12"

\* The codes of the hot keys MacroApp::update dispatches on: Control with R,
\* P or Q.
HotkeyCodes == {VK.CONTROL, CharCode("R"), CharCode("P"), CharCode("Q")}

\* The keyboard procedure runs on a key event.
KeyboardCall ==
    /\ os_hooks.call # None
    /\ os_hooks.call[1].proc = "keyboard"
    /\ os_hooks.call[1].n_code >= 0

HookInactive == os_hooks.last \in {"install_err", "uninstall"}

\* C21: while the hook is inactive no OS hook remains installed and the
\* callback of the recorder is not invoked: no hook procedure hands an event
\* to it.
InactiveHookDeliversNothing ==
    [][/\ HookInactive' => os_hooks'.registered = {}
       /\ (HookInactive /\ callback_calls = <<>>) => callback_calls' = <<>>]_vars

\* C22: after a start_recording whose install() has failed the application
\* is Idle, the recorder is Idle and GLOBAL_HOOKS holds no session.
FailedInstallRolledBack ==
    os_hooks.last = "install_err"
        => /\ app.state = "Idle"
           /\ recorder.state = "Idle"
           /\ GLOBAL_HOOKS = None

\* C23: when uninstall() has returned GLOBAL_HOOKS holds no session, whether
\* or not a hook procedure held the lock when uninstall() started.
UninstallClearsHandle == os_hooks.last = "uninstall" => GLOBAL_HOOKS = None

\* C24: the event a hook procedure hands to the callback after a successful
\* install() carries the time elapsed since that install().
StampedSinceInstall ==
    [][(os_hooks.last = "install_ok" /\ callback_calls = <<>> /\ callback_calls' # <<>>)
          => callback_calls'[1].timestamp = Fin(now - hooks.start_time)]_vars

RecorderStartedFromIdle ==
    [][os_hooks'.installs # os_hooks.installs => recorder.state = "Idle"]_vars

\* C28: pause() in a state other than Playing, resume() in a state other
\* than Paused and start() on an empty timeline change nothing of the
\* player and spawn no loop.
OutOfPlaceCallsChangeNothing ==
    [][/\ (player.state # "Playing" /\ Pause) => UNCHANGED <<player, loops>>
       /\ (player.state # "Paused" /\ Resume) => UNCHANGED <<player, loops>>
       /\ (player.events = <<>> /\ Start) => UNCHANGED <<player, loops>>]_vars

\* A playback has been stopped and its loop has ended with the timeline
\* loaded: pause() and resume() are called out of place here.
StoppedAndEnded ==
    /\ player.state = "Stopped"
    /\ player.events # <<>>
    /\ loops # <<>>
    /\ LiveLoops = {}

\* The OS call that makes the injection command of an event type.
CommandOf(event_type) ==
    CASE event_type \in {"KeyDown", "KeyUp"} -> "SendInput.key"
      [] event_type = "MouseMove" -> "SetCursorPos"
      [] event_type \in {"MouseDown", "MouseUp"} -> "SendInput.button"
      [] OTHER -> "SendInput.wheel"

\* The indexes of the calls of one name, and of the events answered by it.
CallsOf(name) == {i \in DOMAIN injected : injected[i].call = name}

EventsOf(events, name) == {i \in DOMAIN events : CommandOf(events[i].event_type) = name}

\* C29: when the one playback of a loaded timeline has ended, the OS has
\* got one key, button and wheel call for each event of that kind, one
\* cursor position for each event of the mouse, and for each MouseScroll a
\* wheel call with the step the file carries.
EveryEventInjected ==
    (Len(loops) = 1 /\ loops[1].pc = "done")
        => LET events == loops[1].events
           IN  /\ \A name \in {"SendInput.key", "SendInput.button", "SendInput.wheel"} :
                     Cardinality(CallsOf(name)) = Cardinality(EventsOf(events, name))
               /\ Cardinality(CallsOf("SetCursorPos"))
                     = Cardinality({i \in DOMAIN events :
                                       CommandOf(events[i].event_type) # "SendInput.key"})
               /\ \A i \in EventsOf(events, "SendInput.wheel") :
                     \E c \in CallsOf("SendInput.wheel") :
                        /\ HasI64(events[i].data, "dy")
                        /\ injected[c].a = events[i].data["dy"].n * 120

\* No playback is in progress: the player is not Playing and not Paused.
NoPlayback == player.state \notin {"Playing", "Paused"}

\* C30: while the application shows Playing the player is Playing and a
\* scheduling loop is live, while it shows PlayingPaused the player is
\* Paused, while it shows Idle no playback is in progress.
AppAndPlayerAgree ==
    /\ app.state = "Playing" => (player.state = "Playing" /\ LiveLoops # {})
    /\ app.state = "PlayingPaused" => player.state = "Paused"
    /\ app.state = "Idle" => NoPlayback

\* C32: a load_recording whose load_from_file cannot read the file leaves the
\* player (timeline, position, state, speed) and the application
\* (current_file) as they were.
FailedLoadChangesNothing ==
    [][(file = None /\ LoadRecording) => UNCHANGED <<player, app>>]_vars

\* The last load has failed while a timeline loaded from "demo.mcr" is in
\* the player.
FailedLoadAfterLoad ==
    /\ last_load.kind = "Err"
    /\ player.events # <<>>
    /\ app.current_file = Some(DemoFile)
    /\ file = None

\* C31: while the application shows Recording or RecordingPaused no
\* scheduling loop executes an event: nothing is injected.
NoInjectionWhileRecording ==
    [][app.state \in {"Recording", "RecordingPaused"} => injected' = injected]_vars

\* C33: the callback set at construction stays valid: its Box is not
\* released while the session of the application holds it, and no call or
\* drop through it ends the process.
CallbackStaysValid == hooks.callback = "live" /\ ~os_hooks.crashed

\* ------------------------------------------------------------- the locks

\* One step of an operation of the controlling context: lock(m) waits for
\* the mutex m, try_lock(m) takes it or skips the next `skip` steps,
\* unlock(m) is the end of the guard's scope, and `effect` is what the
\* code does between them.
Instr(op, lock, skip, effect) == [op |-> op, lock |-> lock, skip |-> skip, effect |-> effect]

\* An uninstall() that waits for the lock of GLOBAL_HOOKS.
UninstallLockOpBlocking == "lock"

\* uninstall() takes the lock of GLOBAL_HOOKS with try_lock.
UninstallLockOp == "try_lock"

\* GlobalHooks::uninstall up to its sleep: if try_lock gets the lock the
\* handle is cleared, which drops the copy it held, and the guard goes out
\* of scope.  GlobalHooks::drop runs the same steps on the copy.
UninstallProgram ==
    <<Instr(UninstallLockOp, "global", 2, "none"),
      Instr("do", "none", 0, "clear"),
      Instr("unlock", "global", 0, "none")>>

\* The steps of the operations of the controlling context, by the state the
\* application is in: start_recording, pause_resume_recording,
\* stop_current_action, the two reads of update, and on_exit.
Program(operation, state) ==
    LET locked(m, effect) == <<Instr("lock", m, 0, "none"),
                               Instr("do", "none", 0, effect),
                               Instr("unlock", m, 0, "none")>>
        uninstall == <<Instr("lock", "hooks", 0, "none")>>
                     \o UninstallProgram
                     \o <<Instr("do", "none", 0, "unhook"),
                          Instr("unlock", "hooks", 0, "none")>>
        stop == CASE state \in {"Recording", "RecordingPaused"} ->
                        uninstall \o locked("recorder", "recorder.stop")
                                  \o <<Instr("do", "none", 0, "Idle")>>
                  [] state \in {"Playing", "PlayingPaused"} ->
                        locked("player", "player.stop") \o <<Instr("do", "none", 0, "Idle")>>
                  [] OTHER -> <<>>
    IN  CASE operation = "start_recording" ->
                IF state = "Idle"
                THEN <<Instr("do", "none", 0, "Recording")>>
                     \o locked("recorder", "recorder.start")
                     \o <<Instr("lock", "hooks", 0, "none"),
                          Instr("lock", "global", 0, "none"),
                          Instr("do", "none", 0, "install"),
                          Instr("unlock", "global", 0, "none"),
                          Instr("unlock", "hooks", 0, "none"),
                          Instr("do", "none", 0, "install_result")>>
                ELSE <<>>
          [] operation = "pause_resume_recording" ->
                CASE state = "Recording" ->
                        <<Instr("do", "none", 0, "RecordingPaused")>>
                        \o locked("recorder", "recorder.pause")
                  [] state = "RecordingPaused" ->
                        <<Instr("do", "none", 0, "Recording")>>
                        \o locked("recorder", "recorder.resume")
                  [] state = "Playing" ->
                        <<Instr("do", "none", 0, "PlayingPaused")>>
                        \o locked("player", "player.pause")
                  [] state = "PlayingPaused" ->
                        <<Instr("do", "none", 0, "Playing")>>
                        \o locked("player", "player.resume")
                  [] OTHER -> <<>>
          [] operation = "stop_current_action" -> stop
          [] operation = "update" ->
                locked("recorder", "none") \o locked("player", "none")
          [] OTHER ->
                stop \o locked("player", "player.stop") \o uninstall
                     \o <<Instr("do", "none", 0, "Exited")>>

\* The locks a hook procedure holds: the lock of GLOBAL_HOOKS, from its
\* entry until it returns.
HookHolds(m) == m = "global" /\ LockHeld

\* The controlling context enters an operation.
AppBegin(operation) ==
    /\ ~os_hooks.crashed
    /\ ~panicked
    /\ app.pc = <<>>
    /\ app.state # "Exited"
    /\ operation = "start_recording" => os_hooks.installs < MaxInstalls
    /\ Program(operation, app.state) # <<>>
    /\ app' = [app EXCEPT !.pc = Program(operation, app.state)]
    /\ UNCHANGED <<playerVars, codec, keys, hooks, GLOBAL_HOOKS, os_hooks,
                   callback_calls, recorder>>

\* What a step between the lock operations does: an assignment to
\* self.state, a call on the recorder or the player, the store and the
\* registrations of install(), `*guard = None` of uninstall() and its two
\* UnhookWindowsHookEx.  The store of install() and the clear of
\* uninstall() drop the copy GLOBAL_HOOKS held, whose drop runs
\* uninstall() again while the lock is held.
Effect(effect, rest) ==
    LET dropped == IF GLOBAL_HOOKS # None THEN UninstallProgram ELSE <<>>
        state == CASE effect \in {"Idle", "Recording", "RecordingPaused",
                                 "Playing", "PlayingPaused", "Exited"} -> effect
                   [] effect = "install_result" /\ os_hooks.last # "install_ok" -> "Idle"
                   [] OTHER -> app.state
    IN  /\ app' = [app EXCEPT
                     !.state = state,
                     !.pc = IF effect \in {"install", "clear"} THEN dropped \o rest ELSE rest]
        /\ recorder' = CASE effect = "recorder.start" -> RecorderStart(RecorderClear(recorder))
                         [] effect = "recorder.pause" -> RecorderPause(recorder)
                         [] effect = "recorder.resume" -> RecorderResume(recorder)
                         [] effect = "recorder.stop" -> RecorderStop(recorder)
                         [] OTHER -> recorder
        /\ player' = CASE effect = "player.pause" -> Paused(player)
                       [] effect = "player.resume" -> Resumed(player)
                       [] effect = "player.stop" -> Stopped(player)
                       [] OTHER -> player
        /\ CASE effect = "install" ->
                  \E outcome \in InstallOutcomes, crash \in CrashOutcomes(GLOBAL_HOOKS) :
                      InstallBody(outcome, crash)
             [] effect = "clear" ->
                  \E crash \in CrashOutcomes(GLOBAL_HOOKS) :
                      /\ GLOBAL_HOOKS' = None
                      /\ hooks' = [hooks EXCEPT !.callback = CallbackAfterDrop(GLOBAL_HOOKS)]
                      /\ os_hooks' = [os_hooks EXCEPT
                                        !.crashed = crash,
                                        !.registered = RegisteredAfterDrop(GLOBAL_HOOKS)]
             [] effect = "unhook" ->
                  /\ hooks' = [hooks EXCEPT !.keyboard_hook = None, !.mouse_hook = None]
                  /\ os_hooks' = [os_hooks EXCEPT
                                    !.last = "uninstall",
                                    !.registered = os_hooks.registered \ Handles(hooks)]
                  /\ UNCHANGED GLOBAL_HOOKS
             [] OTHER -> UNCHANGED <<hooks, GLOBAL_HOOKS, os_hooks>>

\* The controlling context takes the next step of its operation.  A lock()
\* of a mutex that is held, by a hook procedure or by the context itself
\* (the mutexes are not reentrant), waits.
AppStep ==
    /\ ~os_hooks.crashed
    /\ ~panicked
    /\ app.pc # <<>>
    /\ LET i == Head(app.pc)
           rest == Tail(app.pc)
           free == i.lock \notin app.held /\ ~HookHolds(i.lock)
       IN  CASE i.op = "lock" ->
                  /\ free
                  /\ app' = [app EXCEPT !.pc = rest, !.held = @ \cup {i.lock}]
                  /\ UNCHANGED <<recorder, player, hooks, GLOBAL_HOOKS, os_hooks>>
             [] i.op = "try_lock" ->
                  /\ app' = IF free
                            THEN [app EXCEPT !.pc = rest, !.held = @ \cup {i.lock}]
                            ELSE [app EXCEPT !.pc = SubSeq(rest, i.skip + 1, Len(rest))]
                  /\ UNCHANGED <<recorder, player, hooks, GLOBAL_HOOKS, os_hooks>>
             [] i.op = "unlock" ->
                  /\ app' = [app EXCEPT !.pc = rest, !.held = @ \ {i.lock}]
                  /\ UNCHANGED <<recorder, player, hooks, GLOBAL_HOOKS, os_hooks>>
             [] OTHER -> Effect(i.effect, rest)
    /\ UNCHANGED <<loops, injected, now, file, last_load, panicked, codec, keys,
                   callback_calls>>

\* The controlling context and the hook procedures, lock by lock: the
\* keyboard procedure waits for the lock of GLOBAL_HOOKS, and the callback
\* it has called waits for the lock of the recorder.
NextLocks ==
    \/ \E operation \in {"start_recording", "pause_resume_recording",
                         "stop_current_action", "update", "on_exit"} :
          AppBegin(operation)
    \/ AppStep
    \/ /\ app.state # "Exited"
       /\ "global" \notin app.held
       /\ Len(recorder.events) < MaxRecorded
       /\ KeyboardHookProc(0, "WM_KEYDOWN", 65)
    \/ /\ app.state # "Exited"
       /\ callback_calls # <<>> => "recorder" \notin app.held
       /\ HookReturn

SpecLocks == InitRecording /\ [][NextLocks]_vars

\* The controlling context waits: its next step is a lock() of a mutex that
\* is held.
AppWaits ==
    /\ app.pc # <<>>
    /\ Head(app.pc).op = "lock"
    /\ (Head(app.pc).lock \in app.held \/ HookHolds(Head(app.pc).lock))

\* A hook procedure waits: the callback it has called needs the lock of the
\* recorder, which the controlling context holds.
HookWaits == os_hooks.call # None /\ callback_calls # <<>> /\ "recorder" \in app.held

\* C34: the locks never deadlock: a context that waits for a mutex waits for
\* one the other context holds, and that context does not wait itself, so
\* every lock that is waited for is released and every operation goes on to
\* its end.
NoDeadlock ==
    /\ AppWaits => (HookHolds(Head(app.pc).lock) /\ ~HookWaits)
    /\ HookWaits => ~AppWaits
    /\ app.pc = <<>> => app.held = {}

\* The copy GLOBAL_HOOKS held has been dropped while the controlling
\* context holds the lock of GLOBAL_HOOKS: the uninstall() of the drop is
\* about to take the lock again.
DropUnderLock ==
    /\ "global" \in app.held
    /\ app.pc # <<>>
    /\ Head(app.pc).op = UninstallLockOp
    /\ Head(app.pc).lock = "global"

====
